---- MODULE Spec2Model ----
(***************************************************************************)
(* Model of the thrift-ls parser AST (src/lsp/symbols/field.go):           *)
(* position and location arithmetic, the node types with their             *)
(* Children / IsBadNode / ChildrenBadNode methods, the bad-node            *)
(* constructors and the Document aggregator.                               *)
(*                                                                         *)
(* Pointers are addresses into `heap` (a sequence of node records); the    *)
(* address 0 is the nil pointer.  A method that dereferences nil yields    *)
(* the outcome "panic"; a method that never returns yields "diverge".      *)
(***************************************************************************)
EXTENDS Integers, Sequences, FiniteSets, TLC

VARIABLES
    start,   \* position handed to the last NewLocation call (pigeon `position`)
    text,    \* text handed to the last NewLocation call, as a sequence of runes
    loc,     \* the Location value last built
    qpos,    \* Position handed to the last Location.Contains call
    qres,    \* result of the last Location.Contains call
    lop,     \* name of the last location operation
    heap,    \* the allocated nodes, address -> record
    origin,  \* address -> name of the constructor that returned the node
    docIn,   \* arguments of the last NewDocument call
    call,    \* the last method call on a node: operation, receiver, result
    readers, \* reader -> the call it is running on the shared Document
    cmp      \* the positions last compared and the results of the comparisons

vars ==
    <<start, text, loc, qpos, qres, lop, heap, origin, docIn, call, readers, cmp>>

locVars == <<start, text, loc, qpos, qres, lop>>
treeVars == <<heap, origin, docIn, call>>
readVars == <<readers, cmp>>

(***************************************************************************)
(* Bounds of the model.                                                    *)
(***************************************************************************)
MaxTextLen == 3
MaxLine == 2
MaxCol == 2
MaxOffset == 1

(***************************************************************************)
(* Text.  A Go string is a byte sequence; source text is UTF-8.  Texts are *)
(* drawn as rune sequences and encoded to bytes, and NewLocation works on  *)
(* the bytes as the code does.                                             *)
(***************************************************************************)
NewlineByte == 10

\* '\n', 'a', U+00E9 (2 bytes in UTF-8), U+4E2D (3 bytes in UTF-8)
Runes == {10, 97, 233, 20013}

\* "struct Foo {\n  1: string a\n}"
ExampleText ==
    <<115, 116, 114, 117, 99, 116, 32, 70, 111, 111, 32, 123, 10,
      32, 32, 49, 58, 32, 115, 116, 114, 105, 110, 103, 32, 97, 10, 125>>

\* "include"
IncludeText == <<105, 110, 99, 108, 117, 100, 101>>

BoundedTexts == UNION {[1..n -> Runes] : n \in 0..MaxTextLen}

Texts == BoundedTexts \cup {ExampleText, IncludeText}

EncodeRune(r) ==
    IF r < 128 THEN <<r>>
    ELSE IF r < 2048 THEN <<192 + (r \div 64), 128 + (r % 64)>>
    ELSE <<224 + (r \div 4096), 128 + ((r \div 64) % 64), 128 + (r % 64)>>

RECURSIVE EncodeText(_)
EncodeText(t) ==
    IF t = <<>> THEN <<>> ELSE EncodeRune(Head(t)) \o EncodeText(Tail(t))

\* strings.Count(text, "\n")
RECURSIVE CountByte(_, _)
CountByte(bytes, b) ==
    IF bytes = <<>> THEN 0
    ELSE (IF Head(bytes) = b THEN 1 ELSE 0) + CountByte(Tail(bytes), b)

\* strings.LastIndexByte: 0-based index of the last occurrence, -1 if none
LastIndexByte(bytes, b) ==
    LET hits == {i \in 1..Len(bytes) : bytes[i] = b}
    IN  IF hits = {} THEN -1
        ELSE (CHOOSE i \in hits : \A j \in hits : j <= i) - 1

\* bytes[from:] with a 0-based index
SliceFrom(bytes, from) == SubSeq(bytes, from + 1, Len(bytes))

IsContinuation(bytes, i) ==
    i <= Len(bytes) /\ bytes[i] >= 128 /\ bytes[i] < 192

\* width in bytes of the rune utf8.RuneCount decodes at index i; a byte that
\* starts no well-formed sequence counts as one rune of width 1
RuneWidth(bytes, i) ==
    LET b == bytes[i]
    IN  IF b < 128 THEN 1
        ELSE IF b >= 192 /\ b < 224 /\ IsContinuation(bytes, i + 1) THEN 2
        ELSE IF b >= 224 /\ b < 240 /\ IsContinuation(bytes, i + 1)
                /\ IsContinuation(bytes, i + 2) THEN 3
        ELSE 1

\* utf8.RuneCount
RECURSIVE RuneCountFrom(_, _)
RuneCountFrom(bytes, i) ==
    IF i > Len(bytes) THEN 0
    ELSE 1 + RuneCountFrom(bytes, i + RuneWidth(bytes, i))

RuneCount(bytes) == RuneCountFrom(bytes, 1)

(***************************************************************************)
(* Position and Location.                                                  *)
(***************************************************************************)
ZeroPosition == [Line |-> 0, Col |-> 0, Offset |-> 0]

ZeroLocation == [StartPos |-> ZeroPosition, EndPos |-> ZeroPosition]

ConvertPosition(pos) ==
    [Line |-> pos.line, Col |-> pos.col, Offset |-> pos.offset]

\* the mutant of Less that lets the offset decide between equal columns
LessByOffset(p, other) ==
    IF p.Line < other.Line THEN TRUE
    ELSE IF p.Line = other.Line
         THEN p.Col < other.Col \/ (p.Col = other.Col /\ p.Offset < other.Offset)
    ELSE FALSE

Less(p, other) ==
    IF p.Line < other.Line THEN TRUE
    ELSE IF p.Line = other.Line THEN p.Col < other.Col
    ELSE FALSE

Equal(p, other) == p.Line = other.Line /\ p.Col = other.Col

Greater(p, other) ==
    IF p.Line > other.Line THEN TRUE
    ELSE IF p.Line = other.Line THEN p.Col > other.Col
    ELSE FALSE

NewLocationFromPos(s, e) == [StartPos |-> s, EndPos |-> e]

\* the mutant of NewLocation that counts bytes, not runes, for the column
NewLocationByteCol(startPos, bytes) ==
    LET s == ConvertPosition(startPos)
        n0 == CountByte(bytes, NewlineByte)
        nLine == IF startPos.col = 0 THEN n0 - 1 ELSE n0
        l0 == LastIndexByte(bytes, NewlineByte)
        lastLineOffset == IF l0 = -1 THEN 0 ELSE l0
        lastLine == SliceFrom(bytes, lastLineOffset)
        col0 == Len(lastLine) + 1
        col == IF nLine = 0 THEN col0 + s.Col - 1 ELSE col0
    IN  [StartPos |-> s,
         EndPos |-> [Line |-> s.Line + nLine, Col |-> col,
                     Offset |-> s.Offset + Len(bytes)]]

NewLocation(startPos, bytes) ==
    LET s == ConvertPosition(startPos)
        n0 == CountByte(bytes, NewlineByte)
        nLine == IF startPos.col = 0 THEN n0 - 1 ELSE n0
        l0 == LastIndexByte(bytes, NewlineByte)
        lastLineOffset == IF l0 = -1 THEN 0 ELSE l0
        lastLine == SliceFrom(bytes, lastLineOffset)
        col0 == RuneCount(lastLine) + 1
        col == IF nLine = 0 THEN col0 + s.Col - 1 ELSE col0
    IN  [StartPos |-> s,
         EndPos |-> [Line |-> s.Line + nLine, Col |-> col,
                     Offset |-> s.Offset + Len(bytes)]]

\* the mutant of Contains whose end is inclusive
ContainsInclusive(l, pos) ==
    IF l = <<>> THEN FALSE
    ELSE (Less(l[1].StartPos, pos) \/ Equal(l[1].StartPos, pos))
         /\ (Greater(l[1].EndPos, pos) \/ Equal(l[1].EndPos, pos))

\* l is a *Location: <<>> is the nil pointer, <<v>> points to the value v
Contains(l, pos) ==
    IF l = <<>> THEN FALSE
    ELSE (Less(l[1].StartPos, pos) \/ Equal(l[1].StartPos, pos))
         /\ Greater(l[1].EndPos, pos)

(***************************************************************************)
(* Inputs of the location operations.                                      *)
(***************************************************************************)
\* positions the parser reports: line >= 1, column >= 0 (0 right after a
\* newline), offset >= 0
StartPositions == [line : 1..MaxLine, col : 0..MaxCol, offset : 0..MaxOffset]

\* positions for explicitly built spans and for queries
Positions == [Line : 1..(MaxLine + 1), Col : 0..(MaxCol + 1), Offset : {0}]

OneBefore(p) == [Line |-> p.Line, Col |-> p.Col - 1, Offset |-> p.Offset]

QueryPositions(l) ==
    Positions \cup {l.StartPos, l.EndPos, OneBefore(l.EndPos)}

(***************************************************************************)
(* Nodes.  A node is a record holding the fields of its Go struct; `kind`  *)
(* is the concrete Go type.  Pointer fields hold addresses, Nil is the nil *)
(* pointer, slices are sequences of addresses (a nil slice is <<>>).       *)
(***************************************************************************)
Nil == 0

\* outcomes of a boolean method
T == "true"
F == "false"
Panic == "panic"      \* nil pointer dereference
Diverge == "diverge"  \* unbounded recursion, the call never returns

Bool(b) == IF b THEN T ELSE F

KeywordKinds ==
    {"IncludeKeyword", "CPPIncludeKeyword", "NamespaceKeyword", "StructKeyword",
     "LCurKeyword", "RCurKeyword", "ConstKeyword", "EqualKeyword",
     "ListSeparatorKeyword", "TypedefKeyword", "EnumKeyword", "ServiceKeyword",
     "ExtendsKeyword", "OnewayKeyword", "LParKeyword", "RParKeyword",
     "VoidKeyword", "ThrowsKeyword", "UnionKeyword", "ExceptionKeyword",
     "ColonKeyword", "RequiredKeyword", "LPointKeyword", "RPointKeyword",
     "CommaKeyword", "CppTypeKeyword", "LBrkKeyword", "RBrkKeyword"}

NewBadHeader(l) == [kind |-> "BadHeader", BadNode |-> TRUE, Location |-> l]

\* c is the parser's *current: the matched text and its start position
NewLocationFromCurrent(c) == NewLocation(c.pos, EncodeText(c.text))

NewKeywordLiteral(c) ==
    [kind |-> "KeywordLiteral", Text |-> c.text, BadNode |-> FALSE,
     Location |-> NewLocationFromCurrent(c)]

NewBadKeywordLiteral(c) ==
    [kind |-> "KeywordLiteral", Text |-> c.text, BadNode |-> TRUE,
     Location |-> NewLocationFromCurrent(c)]

\* the embedded Keyword value; `kind` is set by the wrapping keyword type
NewKeyword(comments, literal, l) ==
    [Comments |-> comments, Literal |-> literal, BadNode |-> FALSE, Location |-> l]

\* &StructKeyword{Keyword: kw} and the like
TypedKeyword(kind, kw) ==
    [kind |-> kind, Comments |-> kw.Comments, Literal |-> kw.Literal,
     BadNode |-> kw.BadNode, Location |-> kw.Location]

NewBadEqualKeyword ==
    [kind |-> "EqualKeyword", Comments |-> <<>>, Literal |-> Nil,
     BadNode |-> TRUE, Location |-> ZeroLocation]

NewInclude(keyword, path, l) ==
    [kind |-> "Include", IncludeKeyword |-> keyword, Path |-> path,
     Comments |-> <<>>, EndLineComments |-> <<>>, BadNode |-> FALSE, Location |-> l]

NewBadInclude(l) ==
    [kind |-> "Include", IncludeKeyword |-> Nil, Path |-> Nil,
     Comments |-> <<>>, EndLineComments |-> <<>>, BadNode |-> TRUE, Location |-> l]

NewCPPInclude(keyword, path, l) ==
    [kind |-> "CPPInclude", CPPIncludeKeyword |-> keyword, Path |-> path,
     Comments |-> <<>>, EndLineComments |-> <<>>, BadNode |-> FALSE, Location |-> l]

NewBadCPPInclude(l) ==
    [kind |-> "CPPInclude", CPPIncludeKeyword |-> Nil, Path |-> Nil,
     Comments |-> <<>>, EndLineComments |-> <<>>, BadNode |-> TRUE, Location |-> l]

NewNamespace(keyword, language, name, annotations, l) ==
    [kind |-> "Namespace", NamespaceKeyword |-> keyword, Language |-> language,
     Name |-> name, Annotations |-> annotations, Comments |-> <<>>,
     EndLineComments |-> <<>>, BadNode |-> FALSE, Location |-> l]

NewBadNamespace(l) ==
    [kind |-> "Namespace", NamespaceKeyword |-> Nil, Language |-> Nil,
     Name |-> Nil, Annotations |-> Nil, Comments |-> <<>>,
     EndLineComments |-> <<>>, BadNode |-> TRUE, Location |-> l]

NewBadDefinition(l) == [kind |-> "BadDefinition", BadNode |-> TRUE, Location |-> l]

NewStruct(structKeyword, lCurKeyword, rCurKeyword, identifier, fields, l) ==
    [kind |-> "Struct", StructKeyword |-> structKeyword, LCurKeyword |-> lCurKeyword,
     RCurKeyword |-> rCurKeyword, Identifier |-> identifier, Fields |-> fields,
     Comments |-> <<>>, EndLineComments |-> <<>>, Annotations |-> Nil,
     BadNode |-> FALSE, Location |-> l]

NewBadStruct(l) ==
    [kind |-> "Struct", StructKeyword |-> Nil, LCurKeyword |-> Nil,
     RCurKeyword |-> Nil, Identifier |-> Nil, Fields |-> <<>>,
     Comments |-> <<>>, EndLineComments |-> <<>>, Annotations |-> Nil,
     BadNode |-> TRUE, Location |-> l]

NewConst(constKeyword, equalKeyword, listSeparatorKeyword, name, t, v, l) ==
    [kind |-> "Const", ConstKeyword |-> constKeyword, EqualKeyword |-> equalKeyword,
     ListSeparatorKeyword |-> listSeparatorKeyword, Name |-> name, ConstType |-> t,
     Value |-> v, Comments |-> <<>>, EndLineComments |-> <<>>, Annotations |-> Nil,
     BadNode |-> FALSE, Location |-> l]

NewBadConst(l) ==
    [kind |-> "Const", ConstKeyword |-> Nil, EqualKeyword |-> Nil,
     ListSeparatorKeyword |-> Nil, Name |-> Nil, ConstType |-> Nil,
     Value |-> Nil, Comments |-> <<>>, EndLineComments |-> <<>>, Annotations |-> Nil,
     BadNode |-> TRUE, Location |-> l]

NewTypedef(keyword, t, alias, l) ==
    [kind |-> "Typedef", TypedefKeyword |-> keyword, T |-> t, Alias |-> alias,
     Comments |-> <<>>, EndLineComments |-> <<>>, Annotations |-> Nil,
     BadNode |-> FALSE, Location |-> l]

NewBadTypedef(l) ==
    [kind |-> "Typedef", TypedefKeyword |-> Nil, T |-> Nil, Alias |-> Nil,
     Comments |-> <<>>, EndLineComments |-> <<>>, Annotations |-> Nil,
     BadNode |-> TRUE, Location |-> l]

NewEnum(enumKeyword, lCurKeyword, rCurKeyword, name, values, l) ==
    [kind |-> "Enum", EnumKeyword |-> enumKeyword, LCurKeyword |-> lCurKeyword,
     RCurKeyword |-> rCurKeyword, Name |-> name, Values |-> values,
     Comments |-> <<>>, EndLineComments |-> <<>>, Annotations |-> Nil,
     BadNode |-> FALSE, Location |-> l]

NewBadEnum(l) ==
    [kind |-> "Enum", EnumKeyword |-> Nil, LCurKeyword |-> Nil,
     RCurKeyword |-> Nil, Name |-> Nil, Values |-> <<>>,
     Comments |-> <<>>, EndLineComments |-> <<>>, Annotations |-> Nil,
     BadNode |-> TRUE, Location |-> l]

NewBadEnumValue(l) ==
    [kind |-> "EnumValue", ListSeparatorKeyword |-> Nil, EqualKeyword |-> Nil,
     Name |-> Nil, ValueNode |-> Nil, Value |-> 0, Annotations |-> Nil,
     Comments |-> <<>>, EndLineComments |-> <<>>, BadNode |-> TRUE, Location |-> l]

NewEnumValue(listSeparatorKeyword, equalKeyword, name, valueNode, value, annotations, l) ==
    [kind |-> "EnumValue", ListSeparatorKeyword |-> listSeparatorKeyword,
     EqualKeyword |-> equalKeyword, Name |-> name, ValueNode |-> valueNode,
     Value |-> value, Annotations |-> annotations,
     Comments |-> <<>>, EndLineComments |-> <<>>, BadNode |-> FALSE, Location |-> l]

NewService(serviceKeyword, extendsKeyword, lCurKeyword, rCurKeyword, name, extends, fns, l) ==
    [kind |-> "Service", ServiceKeyword |-> serviceKeyword,
     ExtendsKeyword |-> extendsKeyword, LCurKeyword |-> lCurKeyword,
     RCurKeyword |-> rCurKeyword, Name |-> name, Extends |-> extends,
     Functions |-> fns, Comments |-> <<>>, EndLineComments |-> <<>>,
     Annotations |-> Nil, BadNode |-> FALSE, Location |-> l]

NewBadService(l) ==
    [kind |-> "Service", ServiceKeyword |-> Nil, ExtendsKeyword |-> Nil,
     LCurKeyword |-> Nil, RCurKeyword |-> Nil, Name |-> Nil, Extends |-> Nil,
     Functions |-> <<>>, Comments |-> <<>>, EndLineComments |-> <<>>,
     Annotations |-> Nil, BadNode |-> TRUE, Location |-> l]

NewThrows(throwsKeyword, lparKeyword, rparKeyword, fields, l) ==
    [kind |-> "Throws", ThrowsKeyword |-> throwsKeyword, LParKeyword |-> lparKeyword,
     RParKeyword |-> rparKeyword, Fields |-> fields, BadNode |-> FALSE, Location |-> l]

NewFunction(lParKeyword, rParKeyword, listSeparatorKeyword, name, oneway, void, ft, args, throws, comments, endlineComments, annotations, l) ==
    [kind |-> "Function", LParKeyword |-> lParKeyword, RParKeyword |-> rParKeyword,
     ListSeparatorKeyword |-> listSeparatorKeyword, Name |-> name, Oneway |-> oneway,
     Void |-> void, FunctionType |-> ft, Arguments |-> args, Throws |-> throws,
     Comments |-> comments, EndLineComments |-> endlineComments,
     Annotations |-> annotations, BadNode |-> FALSE, Location |-> l]

NewBadFunction(l) ==
    [kind |-> "Function", LParKeyword |-> Nil, RParKeyword |-> Nil,
     ListSeparatorKeyword |-> Nil, Name |-> Nil, Oneway |-> Nil,
     Void |-> Nil, FunctionType |-> Nil, Arguments |-> <<>>, Throws |-> Nil,
     Comments |-> <<>>, EndLineComments |-> <<>>,
     Annotations |-> Nil, BadNode |-> TRUE, Location |-> l]

NewUnion(unionKeyword, lCurKeyword, rCurKeyword, name, fields, l) ==
    [kind |-> "Union", UnionKeyword |-> unionKeyword, LCurKeyword |-> lCurKeyword,
     RCurKeyword |-> rCurKeyword, Name |-> name, Fields |-> fields,
     Comments |-> <<>>, EndLineComments |-> <<>>, Annotations |-> Nil,
     BadNode |-> FALSE, Location |-> l]

NewBadUnion(l) ==
    [kind |-> "Union", UnionKeyword |-> Nil, LCurKeyword |-> Nil,
     RCurKeyword |-> Nil, Name |-> Nil, Fields |-> <<>>,
     Comments |-> <<>>, EndLineComments |-> <<>>, Annotations |-> Nil,
     BadNode |-> TRUE, Location |-> l]

NewException(exceptionKeyword, lCurKeyword, rCurKeyword, name, fields, l) ==
    [kind |-> "Exception", ExceptionKeyword |-> exceptionKeyword,
     LCurKeyword |-> lCurKeyword, RCurKeyword |-> rCurKeyword, Name |-> name,
     Fields |-> fields, Comments |-> <<>>, EndLineComments |-> <<>>,
     Annotations |-> Nil, BadNode |-> FALSE, Location |-> l]

NewBadException(l) ==
    [kind |-> "Exception", ExceptionKeyword |-> Nil,
     LCurKeyword |-> Nil, RCurKeyword |-> Nil, Name |-> Nil,
     Fields |-> <<>>, Comments |-> <<>>, EndLineComments |-> <<>>,
     Annotations |-> Nil, BadNode |-> TRUE, Location |-> l]

NewIdentifierName(name, l) ==
    [kind |-> "IdentifierName", Text |-> name, Location |-> l, BadNode |-> name = ""]

\* h is the heap at the time of the call: the constructor reads name.BadNode
NewIdentifier(h, name, comments, l) ==
    [kind |-> "Identifier", Name |-> name, Comments |-> comments, Location |-> l,
     BadNode |-> (name = Nil \/ h[name].BadNode)]

NewBadIdentifier(l) ==
    [kind |-> "Identifier", Name |-> Nil, Comments |-> <<>>, Location |-> l,
     BadNode |-> TRUE]

\* &NamespaceScope{Identifier: *id}
NamespaceScopeOf(id) ==
    [kind |-> "NamespaceScope", Name |-> id.Name, Comments |-> id.Comments,
     Location |-> id.Location, BadNode |-> id.BadNode]

NewField(equalKeyword, listSeparatorKeyword, comments, endLineComments, annotations, index, required, fieldType, identifier, constValue, l) ==
    [kind |-> "Field", Index |-> index, RequiredKeyword |-> required,
     FieldType |-> fieldType, Identifier |-> identifier, ConstValue |-> constValue,
     EqualKeyword |-> equalKeyword, ListSeparatorKeyword |-> listSeparatorKeyword,
     Comments |-> comments, EndLineComments |-> endLineComments,
     Annotations |-> annotations, BadNode |-> FALSE, Location |-> l]

NewBadField(l) ==
    [kind |-> "Field", Index |-> Nil, RequiredKeyword |-> Nil,
     FieldType |-> Nil, Identifier |-> Nil, ConstValue |-> Nil,
     EqualKeyword |-> Nil, ListSeparatorKeyword |-> Nil,
     Comments |-> <<>>, EndLineComments |-> <<>>,
     Annotations |-> Nil, BadNode |-> TRUE, Location |-> l]

NewFieldIndex(colonKeyword, v, comments, l) ==
    [kind |-> "FieldIndex", ColonKeyword |-> colonKeyword, Value |-> v,
     Comments |-> comments, BadNode |-> FALSE, Location |-> l]

NewBadFieldIndex(l) ==
    [kind |-> "FieldIndex", ColonKeyword |-> Nil, Value |-> 0,
     Comments |-> <<>>, BadNode |-> TRUE, Location |-> l]

NewCppType(cppTypeKeyword, literal, l) ==
    [kind |-> "CppType", CppTypeKeyword |-> cppTypeKeyword, Literal |-> literal,
     BadNode |-> FALSE, Location |-> l]

\* the mutant of NewFieldType that stores the key type as the value type
\* and the value type as the key type
NewFieldTypeSwapped(lpointKeyword, rpointKeyword, commaKeyword, cppType, typeName, keyType, valueType, l) ==
    [kind |-> "FieldType", TypeName |-> typeName, KeyType |-> valueType,
     ValueType |-> keyType, CppType |-> cppType, LPointKeyword |-> lpointKeyword,
     RPointKeyword |-> rpointKeyword, CommaKeyword |-> commaKeyword,
     Annotations |-> Nil, BadNode |-> FALSE, Location |-> l]

NewFieldType(lpointKeyword, rpointKeyword, commaKeyword, cppType, typeName, keyType, valueType, l) ==
    [kind |-> "FieldType", TypeName |-> typeName, KeyType |-> keyType,
     ValueType |-> valueType, CppType |-> cppType, LPointKeyword |-> lpointKeyword,
     RPointKeyword |-> rpointKeyword, CommaKeyword |-> commaKeyword,
     Annotations |-> Nil, BadNode |-> FALSE, Location |-> l]

NewTypeName(name, pos) ==
    [kind |-> "TypeName", Name |-> name, Comments |-> <<>>, BadNode |-> FALSE,
     Location |-> NewLocation(pos, EncodeText(name))]

\* Value and Key are of type any: <<>> is nil, <<"int", n>> an int64,
\* <<"str", s>> a string, <<"node", a>> a *ConstValue
NewConstValue(typeName, value, l) ==
    [kind |-> "ConstValue", TypeName |-> typeName, Value |-> value, Key |-> <<>>,
     Comments |-> <<>>, BadNode |-> FALSE, Location |-> l]

NewBadConstValue(l) ==
    [kind |-> "ConstValue", TypeName |-> "", Value |-> <<>>, Key |-> <<>>,
     Comments |-> <<>>, BadNode |-> TRUE, Location |-> l]

NewBadIntConstValue(l) ==
    [kind |-> "ConstValue", TypeName |-> "i64", Value |-> <<"int", 0>>, Key |-> <<>>,
     Comments |-> <<>>, BadNode |-> TRUE, Location |-> l]

NewMapConstValue(key, value, l) ==
    [kind |-> "ConstValue", TypeName |-> "pair", Value |-> <<"node", value>>,
     Key |-> <<"node", key>>, Comments |-> <<>>, BadNode |-> FALSE, Location |-> l]

NewLiteralValue(txt, l) ==
    [kind |-> "LiteralValue", Text |-> txt, BadNode |-> FALSE, Location |-> l]

NewBadLiteralValue(l) ==
    [kind |-> "LiteralValue", Text |-> "", BadNode |-> TRUE, Location |-> l]

NewLiteral(comments, v, quote, l) ==
    [kind |-> "Literal", Value |-> v, Quote |-> quote, Comments |-> comments,
     BadNode |-> FALSE, Location |-> l]

NewBadLiteral(l) ==
    [kind |-> "Literal", Value |-> Nil, Quote |-> "", Comments |-> <<>>,
     BadNode |-> TRUE, Location |-> l]

NewAnnotations(lpar, rpar, annos, l) ==
    [kind |-> "Annotations", Annotations |-> annos, LParKeyword |-> lpar,
     RParKeyword |-> rpar, BadNode |-> FALSE, Location |-> l]

NewAnnotation(equalKeyword, listSeparatorKeyword, id, value, l) ==
    [kind |-> "Annotation", EqualKeyword |-> equalKeyword,
     ListSeparatorKeyword |-> listSeparatorKeyword, Identifier |-> id,
     Value |-> value, BadNode |-> FALSE, Location |-> l]

NewBadAnnotation(l) ==
    [kind |-> "Annotation", EqualKeyword |-> Nil,
     ListSeparatorKeyword |-> Nil, Identifier |-> Nil,
     Value |-> Nil, BadNode |-> TRUE, Location |-> l]

NewComment(txt, style, l) ==
    [kind |-> "Comment", Text |-> txt, Style |-> style, BadNode |-> FALSE,
     Location |-> l]

NewBadComment(l) ==
    [kind |-> "Comment", Text |-> "", Style |-> "", BadNode |-> TRUE,
     Location |-> l]

(***************************************************************************)
(* The Node methods.                                                       *)
(***************************************************************************)
\* `if p != nil { nodes = append(nodes, p) }`
Opt(p) == IF p # Nil THEN <<p>> ELSE <<>>

\* Children(): the addresses in the returned slice; a Nil entry is a nil
\* pointer stored in the slice
Children(h, a) ==
    LET n == h[a]
    IN  CASE n.kind = "Document" -> n.Nodes
          [] n.kind = "BadHeader" -> <<>>
          [] n.kind = "KeywordLiteral" -> <<>>
          [] n.kind \in KeywordKinds -> <<>>
          [] n.kind = "Include" ->
                <<n.IncludeKeyword, n.Path>> \o n.Comments \o n.EndLineComments
          [] n.kind = "CPPInclude" ->
                <<n.CPPIncludeKeyword, n.Path>> \o n.Comments \o n.EndLineComments
          [] n.kind = "Namespace" ->
                <<n.NamespaceKeyword, n.Language, n.Name>> \o n.Comments
                \o n.EndLineComments \o Opt(n.Annotations)
          [] n.kind = "BadDefinition" -> <<>>
          [] n.kind = "Struct" ->
                <<n.StructKeyword, n.LCurKeyword, n.RCurKeyword, n.Identifier>>
                \o n.Fields \o n.Comments \o n.EndLineComments \o Opt(n.Annotations)
          [] n.kind = "Const" ->
                <<n.ConstKeyword, n.EqualKeyword, n.Name, n.ConstType, n.Value>>
                \o Opt(n.ListSeparatorKeyword) \o n.Comments \o n.EndLineComments
                \o Opt(n.Annotations)
          [] n.kind = "Typedef" ->
                <<n.TypedefKeyword, n.T, n.Alias>> \o n.Comments
                \o n.EndLineComments \o Opt(n.Annotations)
          [] n.kind = "Enum" ->
                <<n.Name>> \o n.Values \o n.Comments \o n.EndLineComments
                \o Opt(n.Annotations)
          [] n.kind = "EnumValue" ->
                <<n.Name>> \o Opt(n.ValueNode) \o Opt(n.ListSeparatorKeyword)
                \o Opt(n.EqualKeyword) \o n.Comments \o n.EndLineComments
                \o Opt(n.Annotations)
          [] n.kind = "Service" ->
                <<n.ServiceKeyword, n.LCurKeyword, n.RCurKeyword>>
                \o Opt(n.ExtendsKeyword) \o Opt(n.Name) \o Opt(n.Extends)
                \o n.Functions \o n.Comments \o n.EndLineComments
                \o Opt(n.Annotations)
          [] n.kind = "Throws" ->
                <<n.ThrowsKeyword, n.LParKeyword, n.RParKeyword>> \o n.Fields
          [] n.kind = "Function" ->
                <<n.LParKeyword, n.RParKeyword>> \o Opt(n.Oneway) \o Opt(n.Void)
                \o Opt(n.ListSeparatorKeyword) \o Opt(n.Name) \o Opt(n.FunctionType)
                \o n.Arguments \o Opt(n.Throws) \o n.Comments \o n.EndLineComments
                \o Opt(n.Annotations)
          [] n.kind = "Union" ->
                <<n.Name, n.UnionKeyword, n.LCurKeyword, n.RCurKeyword>>
                \o n.Fields \o n.Comments \o n.EndLineComments
                \o n.Comments \o n.EndLineComments \o Opt(n.Annotations)
          [] n.kind = "Exception" ->
                <<n.Name, n.ExceptionKeyword, n.LCurKeyword, n.RCurKeyword>>
                \o n.Fields \o n.Comments \o n.EndLineComments \o Opt(n.Annotations)
          [] n.kind = "IdentifierName" -> <<>>
          [] n.kind \in {"Identifier", "NamespaceScope"} -> n.Comments \o <<n.Name>>
          [] n.kind = "Field" ->
                Opt(n.RequiredKeyword) \o Opt(n.FieldType) \o Opt(n.Identifier)
                \o Opt(n.ConstValue) \o Opt(n.EqualKeyword)
                \o Opt(n.ListSeparatorKeyword) \o n.Comments \o n.EndLineComments
                \o Opt(n.Annotations)
          [] n.kind = "FieldIndex" -> <<>>
          [] n.kind = "CppType" -> <<n.CppTypeKeyword, n.Literal>>
          [] n.kind = "FieldType" ->
                <<n.TypeName>> \o Opt(n.KeyType) \o Opt(n.ValueType)
          [] n.kind = "TypeName" -> n.Comments
          [] n.kind = "ConstValue" -> <<>>
          [] n.kind = "LiteralValue" -> <<>>
          [] n.kind = "Literal" -> n.Comments \o Opt(n.Value)
          [] n.kind = "Annotations" ->
                <<n.LParKeyword, n.RParKeyword>> \o n.Annotations
          [] n.kind = "Annotation" ->
                <<n.Identifier, n.Value, n.EqualKeyword>>
                \o Opt(n.ListSeparatorKeyword)
          [] n.kind = "Comment" -> <<>>

\* Pos(): the start of the embedded Location
Pos(h, a) == h[a].Location.StartPos

\* End(): the end of the embedded Location
End(h, a) == h[a].Location.EndPos

\* Type(): the static tag of the node's type
Type(h, a) ==
    LET k == h[a].kind
    IN  CASE k = "BadDefinition" -> "Definition"
          [] k = "ListSeparatorKeyword" -> "ListSeparator"
          [] k = "NamespaceScope" -> "Identifier"
          [] OTHER -> k

\* IsBadNode(); a call through a nil pointer dereferences it
IsBadNode(h, a) ==
    IF a = Nil THEN Panic
    ELSE CASE h[a].kind = "Document" -> F
           [] h[a].kind = "BadHeader" -> T
           [] h[a].kind = "BadDefinition" -> T
           [] h[a].kind = "CppType" -> Diverge
           [] OTHER -> Bool(h[a].BadNode)

\* the kinds whose ChildrenBadNode is `return false`
ConstantFalseKinds ==
    {"BadHeader", "KeywordLiteral", "BadDefinition", "Comment"} \cup KeywordKinds

RECURSIVE ChildrenBadNode(_, _)

\* the mutant of the loop that asks only the children's ChildrenBadNode
RECURSIVE BadNodeLoopNoOwn(_, _, _)
BadNodeLoopNoOwn(h, children, i) ==
    IF i > Len(children) THEN F
    ELSE IF children[i] = Nil THEN Panic
    ELSE LET sub == ChildrenBadNode(h, children[i])
         IN  IF sub # F THEN sub
             ELSE BadNodeLoopNoOwn(h, children, i + 1)

\* the loop shared by every other ChildrenBadNode, from index i on
RECURSIVE BadNodeLoop(_, _, _)
BadNodeLoop(h, children, i) ==
    IF i > Len(children) THEN F
    ELSE LET own == IsBadNode(h, children[i])
         IN  IF own # F THEN own
             ELSE LET sub == ChildrenBadNode(h, children[i])
                  IN  IF sub # F THEN sub
                      ELSE BadNodeLoop(h, children, i + 1)

ChildrenBadNode(h, a) ==
    IF a = Nil THEN Panic
    ELSE IF h[a].kind \in ConstantFalseKinds THEN F
    ELSE BadNodeLoop(h, Children(h, a), 1)

(***************************************************************************)
(* The symbol of a field.                                                  *)
(***************************************************************************)
\* format.MustFormatFieldType: the type name, and for a container type the
\* element types between angle brackets; a nil type cannot be formatted
RECURSIVE MustFormatFieldType(_, _)
MustFormatFieldType(h, ft) ==
    LET n == h[ft]
        name == h[n.TypeName].Name
    IN  IF n.KeyType = Nil THEN name
        ELSE IF n.ValueType = Nil
        THEN name \o <<60>> \o MustFormatFieldType(h, n.KeyType) \o <<62>>
        ELSE name \o <<60>> \o MustFormatFieldType(h, n.KeyType) \o <<44>>
                  \o MustFormatFieldType(h, n.ValueType) \o <<62>>

\* lsputils.ASTNodeToRange: from the node's Pos() to its End()
ASTNodeToRange(h, a) == [Start |-> Pos(h, a), End |-> End(h, a)]

\* the mutant of FieldSymbol that asks the field's own flag only
FieldSymbolOwnFlagOnly(h, a) ==
    LET f == h[a]
    IN  IF IsBadNode(h, a) = T THEN [out |-> "nil"]
        ELSE IF f.RequiredKeyword # Nil /\ h[f.RequiredKeyword].Literal = Nil
        THEN [out |-> Panic]
        ELSE IF f.FieldType = Nil \/ h[f.FieldType].TypeName = Nil
        THEN [out |-> Panic]
        ELSE IF f.Identifier = Nil \/ h[f.Identifier].Name = Nil
        THEN [out |-> Panic]
        ELSE [out |-> "symbol",
              Name |-> h[h[f.Identifier].Name].Text,
              Detail |-> (IF f.RequiredKeyword = Nil THEN <<>>
                          ELSE h[h[f.RequiredKeyword].Literal].Text)
                         \o MustFormatFieldType(h, f.FieldType),
              Kind |-> "Field",
              Range |-> ASTNodeToRange(h, a),
              SelectionRange |-> ASTNodeToRange(h, a)]

\* FieldSymbol(field): nil for a field that is bad or holds a bad node, the
\* DocumentSymbol otherwise; a nil pointer on the way is a panic
FieldSymbol(h, a) ==
    LET f == h[a]
        sub == ChildrenBadNode(h, a)
    IN  IF IsBadNode(h, a) = T THEN [out |-> "nil"]
        ELSE IF sub = T THEN [out |-> "nil"]
        ELSE IF sub # F THEN [out |-> sub]
        ELSE IF f.RequiredKeyword # Nil /\ h[f.RequiredKeyword].Literal = Nil
        THEN [out |-> Panic]
        ELSE IF f.FieldType = Nil \/ h[f.FieldType].TypeName = Nil
        THEN [out |-> Panic]
        ELSE IF f.Identifier = Nil \/ h[f.Identifier].Name = Nil
        THEN [out |-> Panic]
        ELSE [out |-> "symbol",
              Name |-> h[h[f.Identifier].Name].Text,
              Detail |-> (IF f.RequiredKeyword = Nil THEN <<>>
                          ELSE h[h[f.RequiredKeyword].Literal].Text)
                         \o MustFormatFieldType(h, f.FieldType),
              Kind |-> "Field",
              Range |-> ASTNodeToRange(h, a),
              SelectionRange |-> ASTNodeToRange(h, a)]

(***************************************************************************)
(* The name of an include.                                                 *)
(***************************************************************************)
\* strings.LastIndex(p, "/") + 1: the length of the directory part
RECURSIVE DirLen(_, _)
DirLen(p, i) ==
    IF i = 0 THEN 0
    ELSE IF p[i] = 47 THEN i
    ELSE DirLen(p, i - 1)

\* path.Split: the directory with its final slash, and the file
PathSplit(p) ==
    [dir |-> SubSeq(p, 1, DirLen(p, Len(p))),
     file |-> SubSeq(p, DirLen(p, Len(p)) + 1, Len(p))]

\* path.Ext: the suffix from the last dot of the last element on, empty
\* without a dot; i runs from the end down to a slash
RECURSIVE ExtFrom(_, _)
ExtFrom(p, i) ==
    IF i = 0 \/ p[i] = 47 THEN <<>>
    ELSE IF p[i] = 46 THEN SubSeq(p, i, Len(p))
    ELSE ExtFrom(p, i - 1)

PathExt(p) == ExtFrom(p, Len(p))

\* strings.TrimRight(s, cutset): s without its trailing bytes that occur in
\* cutset, which is a set of characters and not a suffix
RECURSIVE TrimRight(_, _)
TrimRight(s, cutset) ==
    IF s = <<>> \/ cutset = <<>> THEN s
    ELSE IF \E i \in DOMAIN cutset : cutset[i] = s[Len(s)]
    THEN TrimRight(SubSeq(s, 1, Len(s) - 1), cutset)
    ELSE s

\* Include.Name(): i.Path.Value.Text is read through two pointers
Name(h, a) ==
    IF a = Nil \/ h[a].Path = Nil THEN [out |-> Panic]
    ELSE IF h[h[a].Path].Value = Nil THEN [out |-> Panic]
    ELSE LET file == PathSplit(h[h[h[a].Path].Value].Text).file
         IN  [out |-> "returned", name |-> TrimRight(file, PathExt(file))]

(***************************************************************************)
(* The Document aggregator.                                                *)
(***************************************************************************)
EmptyDocument(l) ==
    [kind |-> "Document", BadHeaders |-> <<>>, Includes |-> <<>>,
     CPPIncludes |-> <<>>, Namespaces |-> <<>>, Consts |-> <<>>, Typedefs |-> <<>>,
     Enums |-> <<>>, Services |-> <<>>, Structs |-> <<>>, Unions |-> <<>>,
     Exceptions |-> <<>>, BadDefinitions |-> <<>>, Comments |-> <<>>,
     Nodes |-> <<>>, Location |-> l]

\* one iteration of the loop over headers
AddHeader(h, doc, header) ==
    LET t == Type(h, header)
        d == CASE t = "Include" -> [doc EXCEPT !.Includes = Append(@, header)]
               [] t = "CPPInclude" -> [doc EXCEPT !.CPPIncludes = Append(@, header)]
               [] t = "Namespace" -> [doc EXCEPT !.Namespaces = Append(@, header)]
               [] t = "BadHeader" -> [doc EXCEPT !.BadHeaders = Append(@, header)]
               [] OTHER -> doc
    IN  [d EXCEPT !.Nodes = Append(@, header)]

\* the mutant of AddDefinition that puts the definition at the front of its
\* bucket
AddDefinitionInFront(h, doc, def) ==
    LET t == Type(h, def)
        d == CASE t = "Const" -> [doc EXCEPT !.Consts = <<def>> \o @]
               [] t = "Typedef" -> [doc EXCEPT !.Typedefs = <<def>> \o @]
               [] t = "Enum" -> [doc EXCEPT !.Enums = <<def>> \o @]
               [] t = "Service" -> [doc EXCEPT !.Services = <<def>> \o @]
               [] t = "Struct" -> [doc EXCEPT !.Structs = <<def>> \o @]
               [] t = "Union" -> [doc EXCEPT !.Unions = <<def>> \o @]
               [] t = "Exception" -> [doc EXCEPT !.Exceptions = <<def>> \o @]
               [] t = "BadDefinition" -> [doc EXCEPT !.BadDefinitions = <<def>> \o @]
               [] OTHER -> doc
    IN  [d EXCEPT !.Nodes = Append(@, def)]

\* one iteration of the loop over definitions
AddDefinition(h, doc, def) ==
    LET t == Type(h, def)
        d == CASE t = "Const" -> [doc EXCEPT !.Consts = Append(@, def)]
               [] t = "Typedef" -> [doc EXCEPT !.Typedefs = Append(@, def)]
               [] t = "Enum" -> [doc EXCEPT !.Enums = Append(@, def)]
               [] t = "Service" -> [doc EXCEPT !.Services = Append(@, def)]
               [] t = "Struct" -> [doc EXCEPT !.Structs = Append(@, def)]
               [] t = "Union" -> [doc EXCEPT !.Unions = Append(@, def)]
               [] t = "Exception" -> [doc EXCEPT !.Exceptions = Append(@, def)]
               [] t = "BadDefinition" -> [doc EXCEPT !.BadDefinitions = Append(@, def)]
               [] OTHER -> doc
    IN  [d EXCEPT !.Nodes = Append(@, def)]

RECURSIVE AddHeaders(_, _, _)
AddHeaders(h, doc, headers) ==
    IF headers = <<>> THEN doc
    ELSE AddHeaders(h, AddHeader(h, doc, Head(headers)), Tail(headers))

RECURSIVE AddDefinitions(_, _, _)
AddDefinitions(h, doc, defs) ==
    IF defs = <<>> THEN doc
    ELSE AddDefinitions(h, AddDefinition(h, doc, Head(defs)), Tail(defs))

\* the mutant of NewDocument that puts the trailing comments first
NewDocumentCommentsFirst(h, headers, defs, comments, l) ==
    LET d0 == [EmptyDocument(l) EXCEPT !.Nodes = comments]
        d1 == AddHeaders(h, d0, headers)
        d2 == AddDefinitions(h, d1, defs)
    IN  [d2 EXCEPT !.Comments = comments]

NewDocument(h, headers, defs, comments, l) ==
    LET d1 == AddHeaders(h, EmptyDocument(l), headers)
        d2 == AddDefinitions(h, d1, defs)
    IN  [d2 EXCEPT !.Comments = comments, !.Nodes = d2.Nodes \o comments]

(***************************************************************************)
(* The grammar engine.  It builds a tree bottom-up: the arguments of a     *)
(* constructor are built first, then the constructor is called with their  *)
(* addresses and the node it returns is allocated.  A blueprint names a    *)
(* constructor call and the blueprints of its arguments: `ptr` the pointer *)
(* arguments, `lists` the slice arguments, `val` the scalar arguments, all *)
(* in the order of the constructor's parameters, and `loc` the Location.   *)
(***************************************************************************)
BP(ctor, ptr, lists, val, l) ==
    [ctor |-> ctor, ptr |-> ptr, lists |-> lists, val |-> val, loc |-> l]

\* a nil argument
NoBP == BP("nil", <<>>, <<>>, <<>>, ZeroLocation)

Construct(h, ctor, as, ls, val, l) ==
    CASE ctor = "NewBadHeader" -> NewBadHeader(l)
      [] ctor = "NewKeywordLiteral" -> NewKeywordLiteral(val[1])
      [] ctor = "NewBadKeywordLiteral" -> NewBadKeywordLiteral(val[1])
      [] ctor \in KeywordKinds -> TypedKeyword(ctor, NewKeyword(ls[1], as[1], l))
      [] ctor = "NewBadEqualKeyword" -> NewBadEqualKeyword
      [] ctor = "NewInclude" -> NewInclude(as[1], as[2], l)
      [] ctor = "NewBadInclude" -> NewBadInclude(l)
      [] ctor = "NewCPPInclude" -> NewCPPInclude(as[1], as[2], l)
      [] ctor = "NewBadCPPInclude" -> NewBadCPPInclude(l)
      [] ctor = "NewNamespace" -> NewNamespace(as[1], as[2], as[3], as[4], l)
      [] ctor = "NewBadNamespace" -> NewBadNamespace(l)
      [] ctor = "NewBadDefinition" -> NewBadDefinition(l)
      [] ctor = "NewStruct" -> NewStruct(as[1], as[2], as[3], as[4], ls[1], l)
      [] ctor = "NewBadStruct" -> NewBadStruct(l)
      [] ctor = "NewConst" -> NewConst(as[1], as[2], as[3], as[4], as[5], as[6], l)
      [] ctor = "NewBadConst" -> NewBadConst(l)
      [] ctor = "NewTypedef" -> NewTypedef(as[1], as[2], as[3], l)
      [] ctor = "NewBadTypedef" -> NewBadTypedef(l)
      [] ctor = "NewEnum" -> NewEnum(as[1], as[2], as[3], as[4], ls[1], l)
      [] ctor = "NewBadEnum" -> NewBadEnum(l)
      [] ctor = "NewEnumValue" ->
            NewEnumValue(as[1], as[2], as[3], as[4], val[1], as[5], l)
      [] ctor = "NewBadEnumValue" -> NewBadEnumValue(l)
      [] ctor = "NewService" ->
            NewService(as[1], as[2], as[3], as[4], as[5], as[6], ls[1], l)
      [] ctor = "NewBadService" -> NewBadService(l)
      [] ctor = "NewThrows" -> NewThrows(as[1], as[2], as[3], ls[1], l)
      [] ctor = "NewFunction" ->
            NewFunction(as[1], as[2], as[3], as[4], as[5], as[6], as[7], ls[1],
                        as[8], ls[2], ls[3], as[9], l)
      [] ctor = "NewBadFunction" -> NewBadFunction(l)
      [] ctor = "NewUnion" -> NewUnion(as[1], as[2], as[3], as[4], ls[1], l)
      [] ctor = "NewBadUnion" -> NewBadUnion(l)
      [] ctor = "NewException" -> NewException(as[1], as[2], as[3], as[4], ls[1], l)
      [] ctor = "NewBadException" -> NewBadException(l)
      [] ctor = "NewIdentifierName" -> NewIdentifierName(val[1], l)
      [] ctor = "NewIdentifier" -> NewIdentifier(h, as[1], ls[1], l)
      [] ctor = "NewBadIdentifier" -> NewBadIdentifier(l)
      [] ctor = "NamespaceScope" -> NamespaceScopeOf(NewIdentifier(h, as[1], ls[1], l))
      [] ctor = "NewField" ->
            NewField(as[1], as[2], ls[1], ls[2], as[3], as[4], as[5], as[6],
                     as[7], as[8], l)
      [] ctor = "NewBadField" -> NewBadField(l)
      [] ctor = "NewFieldIndex" -> NewFieldIndex(as[1], val[1], ls[1], l)
      [] ctor = "NewBadFieldIndex" -> NewBadFieldIndex(l)
      [] ctor = "NewCppType" -> NewCppType(as[1], as[2], l)
      [] ctor = "NewFieldType" ->
            NewFieldType(as[1], as[2], as[3], as[4], as[5], as[6], as[7], l)
      [] ctor = "NewTypeName" -> NewTypeName(val[1], val[2])
      [] ctor = "NewConstValue" -> NewConstValue(val[1], val[2], l)
      [] ctor = "NewBadConstValue" -> NewBadConstValue(l)
      [] ctor = "NewBadIntConstValue" -> NewBadIntConstValue(l)
      [] ctor = "NewMapConstValue" -> NewMapConstValue(as[1], as[2], l)
      [] ctor = "NewLiteralValue" -> NewLiteralValue(val[1], l)
      [] ctor = "NewBadLiteralValue" -> NewBadLiteralValue(l)
      [] ctor = "NewLiteral" -> NewLiteral(ls[1], as[1], val[1], l)
      [] ctor = "NewBadLiteral" -> NewBadLiteral(l)
      [] ctor = "NewAnnotations" -> NewAnnotations(as[1], as[2], ls[1], l)
      [] ctor = "NewAnnotation" -> NewAnnotation(as[1], as[2], as[3], as[4], l)
      [] ctor = "NewBadAnnotation" -> NewBadAnnotation(l)
      [] ctor = "NewComment" -> NewComment(val[1], val[2], l)
      [] ctor = "NewBadComment" -> NewBadComment(l)

RECURSIVE Build(_, _, _)

\* the state of a build after the node at r.a has been built
Built(st, r) == [h |-> r.h, o |-> r.o, as |-> Append(st.as, r.a)]

RECURSIVE BuildNext(_, _)
BuildNext(st, bps) ==
    IF Len(st.as) = Len(bps) THEN st
    ELSE BuildNext(Built(st, Build(st.h, st.o, bps[Len(st.as) + 1])), bps)

\* builds the blueprints bps in order; as: the addresses of the built nodes
BuildAll(h, o, bps) == BuildNext([h |-> h, o |-> o, as |-> <<>>], bps)

\* the state of a build after the list of nodes r.as has been built
BuiltList(st, r) == [h |-> r.h, o |-> r.o, ls |-> Append(st.ls, r.as)]

RECURSIVE BuildNextList(_, _)
BuildNextList(st, lists) ==
    IF Len(st.ls) = Len(lists) THEN st
    ELSE BuildNextList(BuiltList(st, BuildAll(st.h, st.o, lists[Len(st.ls) + 1])),
                       lists)

BuildLists(h, o, lists) == BuildNextList([h |-> h, o |-> o, ls |-> <<>>], lists)

\* the call of the constructor once its arguments are built
Allocate(q, node, ctor) ==
    [h |-> Append(q.h, node), o |-> Append(q.o, ctor), a |-> Len(q.h) + 1]

BuildNode(p, q, bp) ==
    Allocate(q, Construct(q.h, bp.ctor, p.as, q.ls, bp.val, bp.loc), bp.ctor)

BuildArgs(p, bp) == BuildNode(p, BuildLists(p.h, p.o, bp.lists), bp)

\* h: the heap, o: the constructor of each node; a: the address of the node
Build(h, o, bp) ==
    IF bp.ctor = "nil" THEN [h |-> h, o |-> o, a |-> Nil]
    ELSE BuildArgs(BuildAll(h, o, bp.ptr), bp)

(***************************************************************************)
(* Inputs of the tree operations: the productions the grammar engine       *)
(* recognises, or fails to recognise, on small source texts.               *)
(***************************************************************************)
MaxFields == 2
MaxDefs == 2
MaxSetterCalls == 1
MaxPathLen == 3

P0 == [line |-> 1, col |-> 1, offset |-> 0]

L0 == NewLocationFromPos([Line |-> 1, Col |-> 1, Offset |-> 0],
                         [Line |-> 1, Col |-> 4, Offset |-> 3])

L1 == NewLocationFromPos([Line |-> 2, Col |-> 1, Offset |-> 4],
                         [Line |-> 3, Col |-> 2, Offset |-> 9])

Locs == {L0, L1}

\* the parser's current match: the text "a" at the start of the file
C0 == [pos |-> P0, text |-> <<97>>]

\* sequences over S of length at most n
SeqsUpTo(S, n) == UNION {[1..k -> S] : k \in 0..n}

Leaf(ctor, l) == BP(ctor, <<>>, <<>>, <<>>, l)

VComment == BP("NewComment", <<>>, <<>>, <<"c", "singleline">>, L0)
BadComment == Leaf("NewBadComment", L0)

VKeywordLiteral == BP("NewKeywordLiteral", <<>>, <<>>, <<C0>>, ZeroLocation)
BadKeywordLiteral == BP("NewBadKeywordLiteral", <<>>, <<>>, <<C0>>, ZeroLocation)

\* a keyword token of the given type, without comments
VKeyword(kind) == BP(kind, <<VKeywordLiteral>>, <<<<>>>>, <<>>, L0)
KeywordBadLiteral(kind) == BP(kind, <<BadKeywordLiteral>>, <<<<>>>>, <<>>, L0)
BadEqualKeyword == Leaf("NewBadEqualKeyword", ZeroLocation)

VIdentifierName == BP("NewIdentifierName", <<>>, <<>>, <<"a">>, L0)
EmptyIdentifierName == BP("NewIdentifierName", <<>>, <<>>, <<"">>, L0)

VIdentifier == BP("NewIdentifier", <<VIdentifierName>>, <<<<>>>>, <<>>, L0)
IdentifierWithComment ==
    BP("NewIdentifier", <<VIdentifierName>>, <<<<VComment>>>>, <<>>, L0)
IdentifierEmptyName ==
    BP("NewIdentifier", <<EmptyIdentifierName>>, <<<<>>>>, <<>>, L0)
IdentifierBadComment ==
    BP("NewIdentifier", <<VIdentifierName>>, <<<<BadComment>>>>, <<>>, L0)
BadIdentifier == Leaf("NewBadIdentifier", L0)

VNamespaceScope == BP("NamespaceScope", <<VIdentifierName>>, <<<<>>>>, <<>>, L0)

VLiteralValue == BP("NewLiteralValue", <<>>, <<>>, <<"v">>, L0)
BadLiteralValue == Leaf("NewBadLiteralValue", L0)
VLiteral == BP("NewLiteral", <<VLiteralValue>>, <<<<>>>>, <<"double">>, L0)
LiteralBadValue == BP("NewLiteral", <<BadLiteralValue>>, <<<<>>>>, <<"double">>, L0)
BadLiteral == Leaf("NewBadLiteral", L0)

\* the type name "a" (an identifier) at the start of the file
VTypeName == BP("NewTypeName", <<>>, <<>>, <<<<97>>, P0>>, ZeroLocation)

\* a base or named type: only the type name is set
VFieldType ==
    BP("NewFieldType", <<NoBP, NoBP, NoBP, NoBP, VTypeName, NoBP, NoBP>>,
       <<>>, <<>>, L0)

\* list<a>
ListFieldType ==
    BP("NewFieldType",
       <<VKeyword("LPointKeyword"), VKeyword("RPointKeyword"), NoBP, NoBP,
         VTypeName, VFieldType, NoBP>>, <<>>, <<>>, L0)

\* map<a, list<a>>
MapFieldType ==
    BP("NewFieldType",
       <<VKeyword("LPointKeyword"), VKeyword("RPointKeyword"),
         VKeyword("CommaKeyword"), NoBP, VTypeName, VFieldType, ListFieldType>>,
       <<>>, <<>>, L0)

VCppType == BP("NewCppType", <<VKeyword("CppTypeKeyword"), VLiteral>>, <<>>, <<>>, L0)

VConstValue == BP("NewConstValue", <<>>, <<>>, <<"i64", <<"int", 1>>>>, L0)
BadConstValue == Leaf("NewBadConstValue", L0)
BadIntConstValue == Leaf("NewBadIntConstValue", L0)
PairConstValue == BP("NewMapConstValue", <<VConstValue, VConstValue>>, <<>>, <<>>, L0)
PairBadKey == BP("NewMapConstValue", <<BadConstValue, VConstValue>>, <<>>, <<>>, L0)

VAnnotation ==
    BP("NewAnnotation", <<VKeyword("EqualKeyword"), NoBP, VIdentifier, VLiteral>>,
       <<>>, <<>>, L0)
AnnotationBadValue ==
    BP("NewAnnotation",
       <<VKeyword("EqualKeyword"), VKeyword("ListSeparatorKeyword"), VIdentifier,
         LiteralBadValue>>, <<>>, <<>>, L0)
BadAnnotation == Leaf("NewBadAnnotation", L0)

AnnotationsOf(annos) ==
    BP("NewAnnotations", <<VKeyword("LParKeyword"), VKeyword("RParKeyword")>>,
       <<annos>>, <<>>, L0)
VAnnotations == AnnotationsOf(<<VAnnotation>>)

VFieldIndex ==
    BP("NewFieldIndex", <<VKeyword("ColonKeyword")>>, <<<<>>>>, <<1>>, L0)
BadFieldIndex == Leaf("NewBadFieldIndex", L0)

\* NewField(equal, separator, comments, endLineComments, annotations, index,
\*          required, fieldType, identifier, constValue, loc)
FieldOf(equal, sep, comments, endLine, annos, index, required, ft, id, cv) ==
    BP("NewField", <<equal, sep, annos, index, required, ft, id, cv>>,
       <<comments, endLine>>, <<>>, L0)

\* 1: a a
VField ==
    FieldOf(NoBP, NoBP, <<>>, <<>>, NoBP, VFieldIndex, NoBP, VFieldType,
            VIdentifier, NoBP)
\* a field with every optional part
FullField ==
    FieldOf(VKeyword("EqualKeyword"), VKeyword("ListSeparatorKeyword"),
            <<VComment>>, <<VComment>>, VAnnotations, VFieldIndex,
            VKeyword("RequiredKeyword"), ListFieldType, VIdentifier, VConstValue)
BadField == Leaf("NewBadField", L0)
FieldBadIdentifier ==
    FieldOf(NoBP, NoBP, <<>>, <<>>, NoBP, VFieldIndex, NoBP, VFieldType,
            BadIdentifier, NoBP)
FieldBadIndex ==
    FieldOf(NoBP, NoBP, <<>>, <<>>, NoBP, BadFieldIndex, NoBP, VFieldType,
            VIdentifier, NoBP)
FieldBadAnnotationValue ==
    FieldOf(NoBP, NoBP, <<>>, <<>>, AnnotationsOf(<<AnnotationBadValue>>),
            VFieldIndex, NoBP, VFieldType, VIdentifier, NoBP)
FieldBadConstValue ==
    FieldOf(BadEqualKeyword, NoBP, <<>>, <<>>, NoBP, VFieldIndex, NoBP, VFieldType,
            VIdentifier, BadIntConstValue)

\* the fields of the structs the grammar engine builds
FieldChoices == {VField, BadField, FieldBadIdentifier}

StructOf(id, fields) ==
    BP("NewStruct",
       <<VKeyword("StructKeyword"), VKeyword("LCurKeyword"), VKeyword("RCurKeyword"),
         id>>, <<fields>>, <<>>, L0)
UnionOf(id, fields) ==
    BP("NewUnion",
       <<VKeyword("UnionKeyword"), VKeyword("LCurKeyword"), VKeyword("RCurKeyword"),
         id>>, <<fields>>, <<>>, L0)
ExceptionOf(id, fields) ==
    BP("NewException",
       <<VKeyword("ExceptionKeyword"), VKeyword("LCurKeyword"),
         VKeyword("RCurKeyword"), id>>, <<fields>>, <<>>, L0)

VEnumValue ==
    BP("NewEnumValue", <<NoBP, NoBP, VIdentifier, NoBP, NoBP>>, <<>>, <<0>>, L0)
FullEnumValue ==
    BP("NewEnumValue",
       <<VKeyword("ListSeparatorKeyword"), VKeyword("EqualKeyword"), VIdentifier,
         VConstValue, VAnnotations>>, <<>>, <<1>>, L0)
EnumValueBadValue ==
    BP("NewEnumValue",
       <<NoBP, VKeyword("EqualKeyword"), VIdentifier, BadIntConstValue, NoBP>>,
       <<>>, <<0>>, L0)
BadEnumValue == Leaf("NewBadEnumValue", L0)

EnumOf(values) ==
    BP("NewEnum",
       <<VKeyword("EnumKeyword"), VKeyword("LCurKeyword"), VKeyword("RCurKeyword"),
         VIdentifier>>, <<values>>, <<>>, L0)

VThrows ==
    BP("NewThrows",
       <<VKeyword("ThrowsKeyword"), VKeyword("LParKeyword"), VKeyword("RParKeyword")>>,
       <<<<VField>>>>, <<>>, L0)
ThrowsBadField ==
    BP("NewThrows",
       <<VKeyword("ThrowsKeyword"), VKeyword("LParKeyword"), VKeyword("RParKeyword")>>,
       <<<<BadField>>>>, <<>>, L0)

\* NewFunction(lPar, rPar, separator, name, oneway, void, type, args, throws,
\*             comments, endLineComments, annotations, loc)
\* void a()
VFunction ==
    BP("NewFunction",
       <<VKeyword("LParKeyword"), VKeyword("RParKeyword"), NoBP, VIdentifier, NoBP,
         VKeyword("VoidKeyword"), NoBP, NoBP, NoBP>>,
       <<<<>>, <<>>, <<>>>>, <<>>, L0)
FunctionOf(args, throws) ==
    BP("NewFunction",
       <<VKeyword("LParKeyword"), VKeyword("RParKeyword"),
         VKeyword("ListSeparatorKeyword"), VIdentifier, VKeyword("OnewayKeyword"),
         NoBP, VFieldType, throws, VAnnotations>>,
       <<args, <<VComment>>, <<VComment>>>>, <<>>, L0)
BadFunction == Leaf("NewBadFunction", L0)

VService ==
    BP("NewService",
       <<VKeyword("ServiceKeyword"), NoBP, VKeyword("LCurKeyword"),
         VKeyword("RCurKeyword"), VIdentifier, NoBP>>, <<<<VFunction>>>>, <<>>, L0)
ServiceOf(fns) ==
    BP("NewService",
       <<VKeyword("ServiceKeyword"), VKeyword("ExtendsKeyword"),
         VKeyword("LCurKeyword"), VKeyword("RCurKeyword"), VIdentifier,
         VIdentifier>>, <<fns>>, <<>>, L0)

\* NewConst(const, equal, separator, name, type, value, loc)
ConstOf(sep, value) ==
    BP("NewConst",
       <<VKeyword("ConstKeyword"), VKeyword("EqualKeyword"), sep, VIdentifier,
         VFieldType, value>>, <<>>, <<>>, L0)
VConst == ConstOf(NoBP, VConstValue)

TypedefOf(ft) ==
    BP("NewTypedef", <<VKeyword("TypedefKeyword"), ft, VIdentifier>>, <<>>, <<>>, L0)
VTypedef == TypedefOf(VFieldType)

IncludeOf(path) ==
    BP("NewInclude", <<VKeyword("IncludeKeyword"), path>>, <<>>, <<>>, L0)
VInclude == IncludeOf(VLiteral)
CPPIncludeOf(path) ==
    BP("NewCPPInclude", <<VKeyword("CPPIncludeKeyword"), path>>, <<>>, <<>>, L0)
VCPPInclude == CPPIncludeOf(VLiteral)
NamespaceOf(annos) ==
    BP("NewNamespace",
       <<VKeyword("NamespaceKeyword"), VNamespaceScope, VIdentifier, annos>>,
       <<>>, <<>>, L0)
VNamespace == NamespaceOf(NoBP)

\* the span of the token of n columns at column c of the first line
TokenAt(c, n) ==
    NewLocationFromPos([Line |-> 1, Col |-> c, Offset |-> c - 1],
                       [Line |-> 1, Col |-> c + n, Offset |-> c - 1 + n])

KeywordAt(kind, l) == BP(kind, <<VKeywordLiteral>>, <<<<>>>>, <<>>, l)

IdentifierAt(l) ==
    BP("NewIdentifier", <<BP("NewIdentifierName", <<>>, <<>>, <<"a">>, l)>>,
       <<<<>>>>, <<>>, l)

LiteralAt(l) ==
    BP("NewLiteral", <<BP("NewLiteralValue", <<>>, <<>>, <<"v">>, l)>>, <<<<>>>>,
       <<"double">>, l)

\* the type name "a" at column c of the first line
FieldTypeAt(c) ==
    BP("NewFieldType",
       <<NoBP, NoBP, NoBP, NoBP,
         BP("NewTypeName", <<>>, <<>>,
            <<<<97>>, [line |-> 1, col |-> c, offset |-> c - 1]>>, ZeroLocation),
         NoBP, NoBP>>, <<>>, <<>>, TokenAt(c, 1))

\* the field "1: a a" at column c of the first line
FieldAt(c) ==
    BP("NewField",
       <<NoBP, NoBP, NoBP,
         BP("NewFieldIndex", <<KeywordAt("ColonKeyword", TokenAt(c + 1, 1))>>,
            <<<<>>>>, <<1>>, TokenAt(c, 2)),
         NoBP, FieldTypeAt(c + 3), IdentifierAt(TokenAt(c + 5, 1)), NoBP>>,
       <<<<>>, <<>>>>, <<>>, TokenAt(c, 6))

\* "struct a { 1: a a }": every token at its place in the text
SourceStruct ==
    BP("NewStruct",
       <<KeywordAt("StructKeyword", TokenAt(1, 6)),
         KeywordAt("LCurKeyword", TokenAt(10, 1)),
         KeywordAt("RCurKeyword", TokenAt(19, 1)),
         IdentifierAt(TokenAt(8, 1))>>, <<<<FieldAt(12)>>>>, <<>>, TokenAt(1, 19))

\* "union a { 1: a a }"
SourceUnion ==
    BP("NewUnion",
       <<KeywordAt("UnionKeyword", TokenAt(1, 5)),
         KeywordAt("LCurKeyword", TokenAt(9, 1)),
         KeywordAt("RCurKeyword", TokenAt(18, 1)),
         IdentifierAt(TokenAt(7, 1))>>, <<<<FieldAt(11)>>>>, <<>>, TokenAt(1, 18))

\* "include 'v'"
SourceInclude ==
    BP("NewInclude",
       <<KeywordAt("IncludeKeyword", TokenAt(1, 7)), LiteralAt(TokenAt(9, 3))>>,
       <<>>, <<>>, TokenAt(1, 11))

\* "typedef a a"
SourceTypedef ==
    BP("NewTypedef",
       <<KeywordAt("TypedefKeyword", TokenAt(1, 7)), FieldTypeAt(9),
         IdentifierAt(TokenAt(11, 1))>>, <<>>, <<>>, TokenAt(1, 11))

\* the type names "map", "set", "list", "string" and "i32"
MapName == <<109, 97, 112>>
SetName == <<115, 101, 116>>
ListName == <<108, 105, 115, 116>>
StringName == <<115, 116, 114, 105, 110, 103>>
I32Name == <<105, 51, 50>>

\* the span of a type of the examples: the longest type name, "string", fits
TypeSpan == TokenAt(1, Len(StringName))

\* a base type: only the type name is set
BaseType(name) ==
    BP("NewFieldType",
       <<NoBP, NoBP, NoBP, NoBP,
         BP("NewTypeName", <<>>, <<>>, <<name, P0>>, ZeroLocation), NoBP, NoBP>>,
       <<>>, <<>>, TypeSpan)

\* list<elem> and set<elem>: the element type is the key type
ContainerType(name, elem) ==
    BP("NewFieldType",
       <<VKeyword("LPointKeyword"), VKeyword("RPointKeyword"), NoBP, NoBP,
         BP("NewTypeName", <<>>, <<>>, <<name, P0>>, ZeroLocation), elem, NoBP>>,
       <<>>, <<>>, TypeSpan)

\* map<key, value>
MapType(key, value) ==
    BP("NewFieldType",
       <<VKeyword("LPointKeyword"), VKeyword("RPointKeyword"),
         VKeyword("CommaKeyword"), NoBP,
         BP("NewTypeName", <<>>, <<>>, <<MapName, P0>>, ZeroLocation), key, value>>,
       <<>>, <<>>, TypeSpan)

\* map<string, list<i32>>
MapStringListI32 ==
    MapType(BaseType(StringName), ContainerType(ListName, BaseType(I32Name)))

\* set<string>
SetOfString == ContainerType(SetName, BaseType(StringName))

\* the container types the grammar engine builds, each as the type of a
\* typedef
ContainerProductions ==
    {BP("NewTypedef", <<VKeyword("TypedefKeyword"), ft, VIdentifier>>, <<>>, <<>>,
        TypeSpan) : ft \in {MapStringListI32, SetOfString}}

\* productions whose tokens carry the locations of their place in the text
SourceProductions == {SourceStruct, SourceUnion, SourceInclude, SourceTypedef}

BadConstructors ==
    {"NewBadHeader", "NewBadDefinition", "NewBadInclude", "NewBadCPPInclude",
     "NewBadNamespace", "NewBadStruct", "NewBadUnion", "NewBadException",
     "NewBadEnum", "NewBadEnumValue", "NewBadService", "NewBadFunction",
     "NewBadField", "NewBadFieldIndex", "NewBadConst", "NewBadTypedef",
     "NewBadAnnotation", "NewBadLiteral", "NewBadLiteralValue", "NewBadIdentifier",
     "NewBadConstValue", "NewBadIntConstValue", "NewBadComment",
     "NewBadKeywordLiteral", "NewBadEqualKeyword"}

\* the call of a bad-path constructor with the location l
BadCall(ctor, l) ==
    IF ctor = "NewBadKeywordLiteral" THEN BP(ctor, <<>>, <<>>, <<C0>>, l)
    ELSE Leaf(ctor, l)

\* the other valid-path productions, with their optional parts left out or
\* filled in and with bad nodes in some of their slots
OtherProductions ==
    {VInclude, IncludeOf(BadLiteral), VCPPInclude, CPPIncludeOf(LiteralBadValue),
     VNamespace, NamespaceOf(VAnnotations),
     VConst, ConstOf(VKeyword("ListSeparatorKeyword"), PairConstValue),
     ConstOf(NoBP, PairBadKey), ConstOf(NoBP, BadConstValue),
     VTypedef, TypedefOf(MapFieldType),
     EnumOf(<<>>), EnumOf(<<VEnumValue, FullEnumValue>>),
     EnumOf(<<EnumValueBadValue>>), EnumOf(<<VEnumValue, BadEnumValue>>),
     VService, ServiceOf(<<VFunction, BadFunction>>),
     ServiceOf(<<FunctionOf(<<VField>>, VThrows)>>),
     FunctionOf(<<BadField>>, NoBP), FunctionOf(<<>>, ThrowsBadField),
     StructOf(IdentifierWithComment, <<>>),
     StructOf(IdentifierEmptyName, <<>>), StructOf(BadIdentifier, <<VField>>),
     StructOf(VIdentifier, <<FieldBadIndex>>),
     StructOf(VIdentifier, <<FieldBadAnnotationValue>>),
     StructOf(VIdentifier, <<FieldBadConstValue>>),
     UnionOf(VIdentifier, <<VField>>), UnionOf(VIdentifier, <<VField, BadField>>),
     ExceptionOf(VIdentifier, <<FullField>>),
     ExceptionOf(IdentifierBadComment, <<>>),
     VCppType, KeywordBadLiteral("StructKeyword"), AnnotationsOf(<<BadAnnotation>>),
     AnnotationsOf(<<VAnnotation, AnnotationBadValue>>)}
    \cup SourceProductions \cup ContainerProductions

\* the bytes of the include paths: slash, dot and two letters
PathBytes == {47, 46, 116, 115}

\* "shared.thrift" and "a/test.thrift"
SharedThrift == <<115, 104, 97, 114, 101, 100, 46, 116, 104, 114, 105, 102, 116>>
ATestThrift == <<97, 47, 116, 101, 115, 116, 46, 116, 104, 114, 105, 102, 116>>

\* the path texts of the includes the grammar engine builds
PathTexts == SeqsUpTo(PathBytes, MaxPathLen) \cup {SharedThrift, ATestThrift}

\* include "<text>"
IncludeWithPath(txt) ==
    IncludeOf(BP("NewLiteral", <<BP("NewLiteralValue", <<>>, <<>>, <<txt>>, L0)>>,
                 <<<<>>>>, <<"double">>, L0))

\* one header of each type NewDocument switches on
HeaderChoices ==
    {VInclude, Leaf("NewBadCPPInclude", L0), Leaf("NewBadNamespace", L0),
     Leaf("NewBadHeader", L0)}

\* one definition of each type NewDocument switches on
DefinitionChoices ==
    {StructOf(VIdentifier, <<>>), Leaf("NewBadConst", L0), Leaf("NewBadTypedef", L0),
     Leaf("NewBadEnum", L0), Leaf("NewBadService", L0), Leaf("NewBadUnion", L0),
     Leaf("NewBadException", L0), Leaf("NewBadDefinition", L1)}

CommentChoices == {VComment}

\* the sequences over S with at most one element
AtMostOne(S) == {<<>>} \cup {<<x>> : x \in S}

(***************************************************************************)
(* The state machine.                                                      *)
(***************************************************************************)
NoDocIn == [doc |-> Nil, headers |-> <<>>, defs |-> <<>>, comments |-> <<>>]

NoCall == [op |-> "none", node |-> Nil, result |-> <<>>, sets |-> 0]

Addrs == DOMAIN heap

\* the goroutines that read the shared Document
Readers == {"r1", "r2"}

\* a reader that runs no call
Idle ==
    [pc |-> "idle", op |-> "none", node |-> Nil, stack |-> <<>>, result |-> <<>>]

\* no comparison has been made
NoCompare == [op |-> "none"]

\* one parse pass of the grammar engine: the production bp is built
Parsed(r) ==
    /\ heap' = r.h
    /\ origin' = r.o
    /\ docIn' = NoDocIn
    /\ call' = [op |-> "construct", node |-> r.a, result |-> <<>>, sets |-> 0]
    /\ UNCHANGED <<locVars, readVars>>

Parse(bp) == Build(<<>>, <<>>, bp)

\* a constructor is called while nothing is built yet: a behaviour holds
\* one tree at a time, Reparse discards it
CallBadConstructor ==
    /\ heap = <<>>
    /\ \E ctor \in BadConstructors, l \in Locs : Parsed(Parse(BadCall(ctor, l)))

CallNewStruct ==
    /\ heap = <<>>
    /\ \E fields \in SeqsUpTo(FieldChoices, MaxFields) :
        Parsed(Parse(StructOf(VIdentifier, fields)))

CallOtherConstructor ==
    /\ heap = <<>>
    /\ \E bp \in OtherProductions : Parsed(Parse(bp))

\* NewDocument on freshly built headers, definitions and trailing comments
ParseDocument(hs, ds, cs, l) ==
    LET r1 == BuildAll(<<>>, <<>>, hs)
        r2 == BuildAll(r1.h, r1.o, ds)
        r3 == BuildAll(r2.h, r2.o, cs)
    IN  [h |-> Append(r3.h, NewDocument(r3.h, r1.as, r2.as, r3.as, l)),
         o |-> Append(r3.o, "NewDocument"),
         in |-> [doc |-> Len(r3.h) + 1, headers |-> r1.as, defs |-> r2.as,
                 comments |-> r3.as]]

ParsedDocument(r) ==
    /\ heap' = r.h
    /\ origin' = r.o
    /\ docIn' = r.in
    /\ call' = [op |-> "construct", node |-> r.in.doc, result |-> <<>>, sets |-> 0]
    /\ UNCHANGED <<locVars, readVars>>

CallNewDocument ==
    /\ heap = <<>>
    /\ \E hs \in AtMostOne(HeaderChoices),
          ds \in SeqsUpTo(DefinitionChoices, MaxDefs),
          cs \in AtMostOne(CommentChoices) :
        ParsedDocument(ParseDocument(hs, ds, cs, L0))

\* the caller has taken the result of the last call: the next call can start
\* (the tree is built and walked by one caller at a time)
Return ==
    /\ call.op # "none"
    /\ call' = [NoCall EXCEPT !.sets = call.sets]
    /\ UNCHANGED <<heap, origin, docIn>>
    /\ UNCHANGED <<locVars, readVars>>

\* a method that reads: the tree is left as it is
Read(op, a, result) ==
    /\ call.op = "none"
    /\ call' = [op |-> op, node |-> a, result |-> result, sets |-> call.sets]
    /\ UNCHANGED <<heap, origin, docIn>>
    /\ UNCHANGED <<locVars, readVars>>

CallChildren == \E a \in Addrs : Read("Children", a, Children(heap, a))

\* CppType.IsBadNode calls itself: the call does not return
CallIsBadNode == \E a \in Addrs : Read("IsBadNode", a, IsBadNode(heap, a))

CallChildrenBadNode ==
    \E a \in Addrs : Read("ChildrenBadNode", a, ChildrenBadNode(heap, a))

CallType == \E a \in Addrs : Read("Type", a, Type(heap, a))

\* the symbol provider asks for the symbol of a field of the tree
CallFieldSymbol ==
    \E a \in Addrs :
        /\ heap[a].kind = "Field"
        /\ Read("FieldSymbol", a, FieldSymbol(heap, a))

\* the types with a SetLocation method
SetLocationKinds ==
    {"BadHeader", "Include", "CPPInclude", "Namespace", "BadDefinition", "Struct",
     "Const", "Typedef", "Enum", "Service", "Union", "Exception"}

\* the types with a SetComments(comments, endLineComments) method
SetCommentsKinds == SetLocationKinds \cup {"EnumValue"}

\* the types with a SetAnnotations method
SetAnnotationsKinds ==
    {"BadDefinition", "Struct", "Const", "Typedef", "Enum", "Service", "Union",
     "Exception"}

\* the mutant of SetLocation that moves the receiver's children as well
SetLocationOfSubtree(h, a, l) ==
    [b \in DOMAIN h |->
        IF b = a \/ \E i \in DOMAIN Children(h, a) : Children(h, a)[i] = b
        THEN [h[b] EXCEPT !.Location = l]
        ELSE h[b]]

SetLocation(h, a, l) == [h EXCEPT ![a].Location = l]

\* BadHeader.SetComments and BadDefinition.SetComments have empty bodies
SetComments(h, a, comments, endLineComments) ==
    IF h[a].kind \in {"BadHeader", "BadDefinition"} THEN h
    ELSE [h EXCEPT ![a].Comments = comments, ![a].EndLineComments = endLineComments]

\* BadDefinition.SetAnnotations has an empty body
SetAnnotations(h, a, annos) ==
    IF h[a].kind = "BadDefinition" THEN h
    ELSE [h EXCEPT ![a].Annotations = annos]

ConstValueSetComments(h, a, comments) == [h EXCEPT ![a].Comments = comments]

Write(op, a, h2, o2) ==
    /\ call.op = "none"
    /\ call.sets < MaxSetterCalls
    /\ heap' = h2
    /\ origin' = o2
    /\ call' = [op |-> op, node |-> a, result |-> <<>>, sets |-> call.sets + 1]
    /\ UNCHANGED docIn
    /\ UNCHANGED <<locVars, readVars>>

CallSetLocation ==
    \E a \in Addrs :
        /\ heap[a].kind \in SetLocationKinds
        /\ Write("SetLocation", a, SetLocation(heap, a, L1), origin)

CallSetComments ==
    \E a \in Addrs :
        /\ heap[a].kind \in SetCommentsKinds
        /\ LET r1 == BuildAll(heap, origin, <<VComment>>)
               r2 == BuildAll(r1.h, r1.o, <<VComment>>)
           IN  Write("SetComments", a, SetComments(r2.h, a, r1.as, r2.as), r2.o)

CallConstValueSetComments ==
    \E a \in Addrs :
        /\ heap[a].kind = "ConstValue"
        /\ LET r == BuildAll(heap, origin, <<VComment>>)
           IN  Write("SetComments", a, ConstValueSetComments(r.h, a, r.as), r.o)

CallSetAnnotations ==
    \E a \in Addrs :
        /\ heap[a].kind \in SetAnnotationsKinds
        /\ LET r == Build(heap, origin, AnnotationsOf(<<>>))
           IN  Write("SetAnnotations", a, SetAnnotations(r.h, a, r.a), r.o)

\* the file is parsed again: the old tree is dropped as a whole
Reparse ==
    /\ heap # <<>>
    /\ heap' = <<>>
    /\ origin' = <<>>
    /\ docIn' = NoDocIn
    /\ call' = NoCall
    /\ UNCHANGED <<locVars, readVars>>

Init ==
    /\ start = P0
    /\ text = <<>>
    /\ loc = ZeroLocation
    /\ qpos = ZeroPosition
    /\ qres = FALSE
    /\ lop = "none"
    /\ heap = <<>>
    /\ origin = <<>>
    /\ docIn = NoDocIn
    /\ call = NoCall
    /\ readers = [r \in Readers |-> Idle]
    /\ cmp = NoCompare

Next ==
    \/ CallBadConstructor
    \/ CallNewStruct
    \/ CallOtherConstructor
    \/ CallChildren
    \/ CallIsBadNode
    \/ CallChildrenBadNode
    \/ CallType
    \/ CallFieldSymbol
    \/ CallSetLocation
    \/ CallSetComments
    \/ CallConstValueSetComments
    \/ CallSetAnnotations
    \/ Return
    \/ Reparse

Spec == Init /\ [][Next]_vars

(***************************************************************************)
(* The location operations as a state machine of their own.                *)
(***************************************************************************)
CallNewLocation ==
    /\ lop = "none"
    /\ \E s \in StartPositions, t \in Texts :
        /\ start' = s
        /\ text' = t
        /\ loc' = NewLocation(s, EncodeText(t))
        /\ lop' = "NewLocation"
        /\ qpos' = ZeroPosition
        /\ qres' = FALSE
        /\ UNCHANGED <<treeVars, readVars>>

CallNewLocationFromPos ==
    /\ lop = "none"
    /\ \E s \in Positions, e \in Positions :
        /\ loc' = NewLocationFromPos(s, e)
        /\ lop' = "NewLocationFromPos"
        /\ start' = P0
        /\ text' = <<>>
        /\ qpos' = ZeroPosition
        /\ qres' = FALSE
        /\ UNCHANGED <<treeVars, readVars>>

\* the caller has taken the Location or the result of Contains
ReturnLocation ==
    /\ lop \notin {"none", "idle"}
    /\ lop' = "idle"
    /\ qpos' = ZeroPosition
    /\ qres' = FALSE
    /\ UNCHANGED <<start, text, loc>>
    /\ UNCHANGED <<treeVars, readVars>>

\* Contains on a pointer to the location last built
CallLocationContains ==
    /\ lop = "idle"
    /\ \E pos \in QueryPositions(loc) :
        /\ qpos' = pos
        /\ qres' = Contains(<<loc>>, pos)
        /\ lop' = "Contains"
        /\ UNCHANGED <<start, text, loc>>
        /\ UNCHANGED <<treeVars, readVars>>

\* Contains on a nil *Location
CallNilLocationContains ==
    /\ lop = "idle"
    /\ \E pos \in QueryPositions(loc) :
        /\ qpos' = pos
        /\ qres' = Contains(<<>>, pos)
        /\ lop' = "NilContains"
        /\ UNCHANGED <<start, text, loc>>
        /\ UNCHANGED <<treeVars, readVars>>

NextLoc ==
    \/ CallNewLocation
    \/ CallNewLocationFromPos
    \/ CallLocationContains
    \/ CallNilLocationContains
    \/ ReturnLocation

SpecLoc == Init /\ [][NextLoc]_vars

(***************************************************************************)
(* The comparisons of Position as a state machine of their own: a caller   *)
(* compares positions with Less, Equal and Greater.                        *)
(***************************************************************************)
\* the positions compared: lines, columns and offsets vary independently
ComparedPositions == [Line : 1..MaxLine, Col : 0..MaxCol, Offset : 0..MaxOffset]

CallCompare ==
    /\ cmp.op = "none"
    /\ \E p \in ComparedPositions, q \in ComparedPositions, r \in ComparedPositions :
        cmp' = [op |-> "compare", p |-> p, q |-> q, r |-> r,
                less |-> Less(p, q), equal |-> Equal(p, q),
                greater |-> Greater(p, q), greaterQP |-> Greater(q, p),
                lessQR |-> Less(q, r), lessPR |-> Less(p, r)]
    /\ UNCHANGED readers
    /\ UNCHANGED <<treeVars, locVars>>

\* the caller has taken the results
ReturnCompare ==
    /\ cmp.op # "none"
    /\ cmp' = NoCompare
    /\ UNCHANGED readers
    /\ UNCHANGED <<treeVars, locVars>>

NextPos ==
    \/ CallCompare
    \/ ReturnCompare

SpecPos == Init /\ [][NextPos]_vars

(***************************************************************************)
(* NewDocument as a state machine of its own: the grammar engine builds    *)
(* the headers, the definitions and the trailing comments of a file and    *)
(* hands them to NewDocument.                                              *)
(***************************************************************************)
NextDoc ==
    \/ CallNewDocument
    \/ CallChildren
    \/ CallType
    \/ CallChildrenBadNode
    \/ Return
    \/ Reparse

SpecDoc == Init /\ [][NextDoc]_vars

(***************************************************************************)
(* Several readers on one built Document.  A reader runs Children() or     *)
(* ChildrenBadNode() on its own stack; a step of a reader is one method    *)
(* call on one node, and the steps of the readers interleave.              *)
(***************************************************************************)
\* the documents the readers share
SharedHeaders == {VInclude}
SharedDefinitions ==
    {StructOf(VIdentifier, <<>>), StructOf(VIdentifier, <<BadField>>),
     Leaf("NewBadDefinition", L1)}

CallNewDocumentShared ==
    /\ heap = <<>>
    /\ \E hs \in AtMostOne(SharedHeaders), ds \in AtMostOne(SharedDefinitions),
          cs \in AtMostOne(CommentChoices) :
        ParsedDocument(ParseDocument(hs, ds, cs, L0))

\* the nodes a reader holds a pointer to: the Document and its top-level nodes
Entry ==
    {docIn.doc}
    \cup {heap[docIn.doc].Nodes[i] : i \in DOMAIN heap[docIn.doc].Nodes}

\* the frame of a ChildrenBadNode() call on a: `children := s.Children()`
\* and the loop index; the methods that are `return false` have no loop
Frame(h, a) ==
    [n |-> a,
     ch |-> IF h[a].kind \in ConstantFalseKinds THEN <<>> ELSE Children(h, a),
     i |-> 1]

\* the outermost call returns res
Finish(rd, res) == [rd EXCEPT !.pc = "done", !.stack = <<>>, !.result = res]

\* the mutant of Resume that skips the next child
ResumeSkipping(stack) == [stack EXCEPT ![Len(stack)].i = @ + 2]

\* the callee returned false: the caller's loop goes on with the next child
Resume(stack) == [stack EXCEPT ![Len(stack)].i = @ + 1]

\* the loop of the top frame is over: `return false`
ReturnFalse(rd) ==
    LET callers == SubSeq(rd.stack, 1, Len(rd.stack) - 1)
    IN  IF callers = <<>> THEN Finish(rd, F)
        ELSE [rd EXCEPT !.stack = Resume(callers)]

\* one iteration of the loop of the top frame: children[i].IsBadNode(), and
\* if it is false the call of children[i].ChildrenBadNode(); a true result,
\* a panic or a call that does not return ends every caller as well
Iterate(h, rd) ==
    LET top == rd.stack[Len(rd.stack)]
        own == IsBadNode(h, top.ch[top.i])
    IN  IF own # F THEN Finish(rd, own)
        ELSE [rd EXCEPT !.stack = Append(@, Frame(h, top.ch[top.i]))]

ReaderStep(h, rd) ==
    LET top == rd.stack[Len(rd.stack)]
    IN  IF top.i > Len(top.ch) THEN ReturnFalse(rd) ELSE Iterate(h, rd)

\* the readers leave the tree and the single caller's record alone
ReaderMoves(r, rd) ==
    /\ readers' = [readers EXCEPT ![r] = rd]
    /\ UNCHANGED cmp
    /\ UNCHANGED <<treeVars, locVars>>

ReaderCallChildren ==
    /\ docIn.doc # Nil
    /\ \E r \in Readers, a \in Entry :
        /\ readers[r].pc = "idle"
        /\ ReaderMoves(r, [pc |-> "done", op |-> "Children", node |-> a,
                           stack |-> <<>>, result |-> Children(heap, a)])

ReaderCallChildrenBadNode ==
    /\ docIn.doc # Nil
    /\ \E r \in Readers, a \in Entry :
        /\ readers[r].pc = "idle"
        /\ ReaderMoves(r, [pc |-> "run", op |-> "ChildrenBadNode", node |-> a,
                           stack |-> <<Frame(heap, a)>>, result |-> <<>>])

ReaderRuns ==
    \E r \in Readers :
        /\ readers[r].pc = "run"
        /\ ReaderMoves(r, ReaderStep(heap, readers[r]))

\* the reader has taken the result of its call
ReaderReturn ==
    \E r \in Readers :
        /\ readers[r].pc = "done"
        /\ ReaderMoves(r, Idle)

NextReaders ==
    \/ CallNewDocumentShared
    \/ ReaderCallChildren
    \/ ReaderCallChildrenBadNode
    \/ ReaderRuns
    \/ ReaderReturn

SpecReaders == Init /\ [][NextReaders]_vars

(***************************************************************************)
(* The includes of a file and their names.                                 *)
(***************************************************************************)
\* the grammar engine builds an include, by NewInclude with a path or with
\* a bad path, or by NewBadInclude
CallNewInclude ==
    /\ heap = <<>>
    /\ \/ \E txt \in PathTexts : Parsed(Parse(IncludeWithPath(txt)))
       \/ Parsed(Parse(IncludeOf(BadLiteral)))
       \/ Parsed(Parse(Leaf("NewBadInclude", L0)))

CallName ==
    \E a \in Addrs :
        /\ heap[a].kind = "Include"
        /\ Read("Name", a, Name(heap, a))

NextInclude ==
    \/ CallNewInclude
    \/ CallName
    \/ CallIsBadNode
    \/ CallChildrenBadNode
    \/ Return
    \/ Reparse

SpecInclude == Init /\ [][NextInclude]_vars

(***************************************************************************)
(* The claims about NewLocation and Location.Contains, under SpecLoc.      *)
(***************************************************************************)
\* the text has no newline
SingleLine(t) == \A i \in DOMAIN t : t[i] # NewlineByte

\* the number of code points of t after its last newline
RunesAfterLastNewline(t) ==
    Len(t) - (CHOOSE i \in DOMAIN t : t[i] = NewlineByte /\ SingleLine(SubSeq(t, i + 1, Len(t))))

\* p < q in the (line, column) order
Before(p, q) == p.Line < q.Line \/ (p.Line = q.Line /\ p.Col < q.Col)

\* C1: for a start with column >= 1 and a text without newline, NewLocation
\* returns StartPos = start and EndPos on the same line, at column start
\* column + number of code points and offset start offset + number of bytes;
\* for the empty text EndPos = StartPos.
C1_SingleLineEnd ==
    (lop = "NewLocation" /\ start.col >= 1 /\ SingleLine(text)) =>
        /\ loc.StartPos =
               [Line |-> start.line, Col |-> start.col, Offset |-> start.offset]
        /\ loc.EndPos =
               [Line |-> start.line, Col |-> start.col + Len(text),
                Offset |-> start.offset + Len(EncodeText(text))]
        /\ (text = <<>> => loc.EndPos = loc.StartPos)

\* a single-line text with a code point of several bytes has been located
C1_Witness ==
    /\ lop = "NewLocation"
    /\ start.col >= 1
    /\ SingleLine(text)
    /\ Len(text) >= 2
    /\ Len(EncodeText(text)) > Len(text)
    /\ loc.EndPos.Col = start.col + Len(text)

\* C2: for a start with column >= 1 and a text with k >= 1 newlines,
\* NewLocation returns EndPos at line start line + k, at column (number of
\* code points after the last newline) + 1 and at offset start offset +
\* number of bytes; the struct example ends at {3, 2, 28}.
C2_MultiLineEnd ==
    (lop = "NewLocation" /\ start.col >= 1 /\ ~SingleLine(text)) =>
        loc.EndPos =
            [Line |-> start.line + Cardinality({i \in DOMAIN text : text[i] = NewlineByte}),
             Col |-> RunesAfterLastNewline(text) + 1,
             Offset |-> start.offset + Len(EncodeText(text))]

\* the struct example has been located: its end column is 3
C2_Witness ==
    /\ lop = "NewLocation"
    /\ start = P0
    /\ text = ExampleText
    /\ loc.EndPos = [Line |-> 3, Col |-> 3, Offset |-> 28]

\* C3: Contains(pos) is true exactly if StartPos <= pos < EndPos in the
\* (line, column) order, and Contains on a nil Location is false.
C3_ContainsHalfOpen ==
    /\ lop = "Contains" =>
           (qres <=> (~Before(qpos, loc.StartPos) /\ Before(qpos, loc.EndPos)))
    /\ lop = "NilContains" => qres = FALSE

\* the position one column before the end of a span of several columns has
\* been asked for and is contained
C3_Witness ==
    /\ lop = "Contains"
    /\ Before(loc.StartPos, OneBefore(loc.EndPos))
    /\ qpos = OneBefore(loc.EndPos)
    /\ qres = TRUE

(***************************************************************************)
(* The claims about the nodes of a tree, under Spec.                       *)
(***************************************************************************)
Range(seq) == {seq[i] : i \in DOMAIN seq}

\* the nodes among the entries of a.Children()
ChildSet(h, a) == Range(Children(h, a)) \ {Nil}

\* the proper descendants of a: the nodes reached by repeated Children()
RECURSIVE Descendants(_, _)
Descendants(h, a) ==
    ChildSet(h, a) \cup UNION {Descendants(h, c) : c \in ChildSet(h, a)}

HasBadDescendant(h, a) == \E d \in Descendants(h, a) : IsBadNode(h, d) = T

\* C4: for every node n of every tree, n.ChildrenBadNode() is true if some
\* proper descendant of n, reached by repeated Children(), has IsBadNode()
\* true, and false otherwise, whatever n's own flag is.
C4_ChildrenBadNodeIffBadDescendant ==
    call.op = "ChildrenBadNode" =>
        call.result = Bool(HasBadDescendant(heap, call.node))

\* ChildrenBadNode() has been called on the node NewBadStruct returned
C4_Witness ==
    /\ call.op = "ChildrenBadNode"
    /\ origin[call.node] = "NewBadStruct"
    /\ call.result = Panic

\* C5: the node a bad-path constructor returns has IsBadNode() true and
\* Children() empty, for every location it is given.
C5_BadConstructorLeaf ==
    (call.op \in {"IsBadNode", "Children"} /\ call.sets = 0
     /\ origin[call.node] \in BadConstructors) =>
        /\ call.op = "IsBadNode" => call.result = T
        /\ call.op = "Children" => call.result = <<>>

\* Children() has been called on the node NewBadStruct returned
C5_Witness ==
    /\ call.op = "Children"
    /\ call.sets = 0
    /\ origin[call.node] = "NewBadStruct"
    /\ call.result = <<Nil, Nil, Nil, Nil>>

\* the struct s was built from non-nil tokens and from fields of which
\* exactly one is from NewBadField and the others are valid
OneBadField(h, o, s) ==
    /\ o[s] = "NewStruct"
    /\ h[s].StructKeyword # Nil /\ h[s].LCurKeyword # Nil /\ h[s].RCurKeyword # Nil
    /\ h[s].Identifier # Nil
    /\ Cardinality({i \in DOMAIN h[s].Fields : o[h[s].Fields[i]] = "NewBadField"}) = 1
    /\ \A i \in DOMAIN h[s].Fields :
           o[h[s].Fields[i]] # "NewBadField" =>
               /\ IsBadNode(h, h[s].Fields[i]) = F
               /\ ~HasBadDescendant(h, h[s].Fields[i])

\* the entries of s.Children() that are fields of s, in the order of Children()
FieldsInChildren(h, s) ==
    LET IsField(x) == x \in Range(h[s].Fields)
    IN  SelectSeq(Children(h, s), IsField)

\* C8: a struct from NewStruct with non-nil tokens and with exactly one
\* NewBadField node among otherwise valid fields has IsBadNode() false and
\* ChildrenBadNode() true, and its Children() holds the fields in the order
\* of the field list.
C8_StructWithOneBadField ==
    \A s \in Addrs :
        OneBadField(heap, origin, s) =>
            /\ IsBadNode(heap, s) = F
            /\ ChildrenBadNode(heap, s) = T
            /\ FieldsInChildren(heap, s) = heap[s].Fields
            /\ (call.node = s /\ call.op = "IsBadNode") => call.result = F
            /\ (call.node = s /\ call.op = "ChildrenBadNode") => call.result = T

\* ChildrenBadNode() has been called on a struct whose first field of two is
\* the bad one
C8_Witness ==
    /\ call.op = "ChildrenBadNode"
    /\ call.node # Nil
    /\ OneBadField(heap, origin, call.node)
    /\ Len(heap[call.node].Fields) = 2
    /\ origin[heap[call.node].Fields[1]] = "NewBadField"
    /\ call.result = T

ReadOps == {"Children", "IsBadNode", "ChildrenBadNode", "Type"}

SetterOps == {"SetLocation", "SetComments", "SetAnnotations"}

\* the fields of the receiver a setter assigns
AssignedBy(op) ==
    CASE op = "SetLocation" -> {"Location"}
      [] op = "SetComments" -> {"Comments", "EndLineComments"}
      [] op = "SetAnnotations" -> {"Annotations"}

C10_ChildrenWithoutNil ==
    call.op = "Children" => \A i \in DOMAIN call.result : call.result[i] # Nil

\* Children() has been called on the node NewBadIdentifier returned
C10_Witness ==
    /\ call.op = "Children"
    /\ origin[call.node] = "NewBadIdentifier"
    /\ Nil \in Range(call.result)

(***************************************************************************)
(* The claims about NewDocument, under SpecDoc.                            *)
(***************************************************************************)
\* the bucket of each Type() tag
BucketOf ==
    [Include |-> "Includes", CPPInclude |-> "CPPIncludes",
     Namespace |-> "Namespaces", BadHeader |-> "BadHeaders", Const |-> "Consts",
     Typedef |-> "Typedefs", Enum |-> "Enums", Service |-> "Services",
     Struct |-> "Structs", Union |-> "Unions", Exception |-> "Exceptions",
     BadDefinition |-> "BadDefinitions"]

Buckets == {BucketOf[t] : t \in DOMAIN BucketOf}

BucketSizes(d) ==
    Len(d.Includes) + Len(d.CPPIncludes) + Len(d.Namespaces) + Len(d.BadHeaders)
    + Len(d.Consts) + Len(d.Typedefs) + Len(d.Enums) + Len(d.Services)
    + Len(d.Structs) + Len(d.Unions) + Len(d.Exceptions) + Len(d.BadDefinitions)

\* C6: NewDocument puts every header and every definition into exactly one
\* bucket, the one of its Type() tag; the bucket sizes sum to the number of
\* headers and definitions, and a NewBadDefinition node is in BadDefinitions.
C6_TypedBuckets ==
    docIn.doc # Nil =>
        LET d == heap[docIn.doc]
            items == docIn.headers \o docIn.defs
        IN  /\ \A i \in DOMAIN items :
                   Cardinality({b \in Buckets : items[i] \in Range(d[b])}) = 1
            /\ \A i \in DOMAIN items :
                   Type(heap, items[i]) \in DOMAIN BucketOf =>
                       items[i] \in Range(d[BucketOf[Type(heap, items[i])]])
            /\ BucketSizes(d) = Len(items)
            /\ \A i \in DOMAIN items :
                   origin[items[i]] = "NewBadDefinition" =>
                       items[i] \in Range(d.BadDefinitions)

\* a document has been built from a NewBadDefinition node and its
\* BadDefinitions bucket is empty
C6_Witness ==
    /\ docIn.doc # Nil
    /\ \E i \in DOMAIN docIn.defs : origin[docIn.defs[i]] = "NewBadDefinition"
    /\ heap[docIn.doc].BadDefinitions = <<>>

GrammarOrder(h, a) ==
    LET n == h[a]
    IN  CASE n.kind = "Struct" ->
                <<n.StructKeyword, n.Identifier, n.LCurKeyword>> \o n.Fields
                \o <<n.RCurKeyword>>
          [] n.kind = "Union" ->
                <<n.UnionKeyword, n.Name, n.LCurKeyword>> \o n.Fields
                \o <<n.RCurKeyword>>
          [] n.kind = "Exception" ->
                <<n.ExceptionKeyword, n.Name, n.LCurKeyword>> \o n.Fields
                \o <<n.RCurKeyword>>
          [] n.kind = "Include" -> <<n.IncludeKeyword, n.Path>>
          [] n.kind = "CPPInclude" -> <<n.CPPIncludeKeyword, n.Path>>
          [] n.kind = "Typedef" -> <<n.TypedefKeyword, n.T, n.Alias>>
          [] OTHER -> <<>>

\* a is a valid composite all of whose children are tokens and elements
\* located one after the other in the order of the grammar
InSourceOrder(h, a) ==
    LET g == GrammarOrder(h, a)
    IN  /\ g # <<>>
        /\ ~h[a].BadNode
        /\ Nil \notin Range(g)
        /\ \A i, j \in DOMAIN g : i < j => Less(Pos(h, g[i]), Pos(h, g[j]))
        /\ Range(Children(h, a)) \subseteq Range(g)

\* C11: for a composite built by its valid-path constructor from tokens and
\* elements located in source order, Children() is ordered by ascending
\* start position: no entry starts after a later entry.
C11_ChildrenInSourceOrder ==
    (call.op = "Children" /\ InSourceOrder(heap, call.node)) =>
        \A i, j \in DOMAIN call.result :
            i < j => ~Greater(Pos(heap, call.result[i]), Pos(heap, call.result[j]))

\* Children() has been called on the struct of "struct a { 1: a a }": the
\* closing brace comes before the name
C11_Witness ==
    /\ call.op = "Children"
    /\ origin[call.node] = "NewStruct"
    /\ InSourceOrder(heap, call.node)
    /\ call.result[3] = heap[call.node].RCurKeyword
    /\ call.result[4] = heap[call.node].Identifier
    /\ Greater(Pos(heap, call.result[3]), Pos(heap, call.result[4]))

\* a Key or Value of type any that holds a *ConstValue
AnyNode(v) == IF v # <<>> /\ v[1] = "node" THEN <<v[2]>> ELSE <<>>

\* the pointer and slice fields of a node that its Children() leaves out
HiddenSlots(h, a) ==
    LET n == h[a]
    IN  CASE n.kind \in KeywordKinds -> n.Comments \o Opt(n.Literal)
          [] n.kind = "Enum" -> <<n.EnumKeyword, n.LCurKeyword, n.RCurKeyword>>
          [] n.kind = "Field" -> Opt(n.Index)
          [] n.kind = "FieldIndex" -> <<n.ColonKeyword>> \o n.Comments
          [] n.kind = "FieldType" ->
                <<n.CppType, n.LPointKeyword, n.RPointKeyword, n.CommaKeyword,
                  n.Annotations>>
          [] n.kind = "ConstValue" -> AnyNode(n.Key) \o AnyNode(n.Value) \o n.Comments
          [] OTHER -> <<>>

\* the nodes stored in the slots of a
SlotSet(h, a) == (Range(Children(h, a)) \cup Range(HiddenSlots(h, a))) \ {Nil}

\* the nodes reached from a through slots, a itself left out
RECURSIVE SlotDescendants(_, _)
SlotDescendants(h, a) ==
    SlotSet(h, a) \cup UNION {SlotDescendants(h, c) : c \in SlotSet(h, a)}

\* a, or a node below a, is a valid composite with a bad node in a slot
HoldsBadSlot(h, a) ==
    \E c \in {a} \cup SlotDescendants(h, a) :
        /\ IsBadNode(h, c) # T
        /\ \E d \in SlotSet(h, c) : IsBadNode(h, d) = T

\* C12: whenever a node with IsBadNode() true is stored in a slot of a
\* valid composite, ChildrenBadNode() is true on that composite and on
\* every ancestor of it.
C12_InvalidityNeverMasked ==
    (call.op = "ChildrenBadNode" /\ HoldsBadSlot(heap, call.node)) =>
        call.result = T

\* ChildrenBadNode() has been called on a valid Field whose Index is bad:
\* it is false
C12_Witness ==
    /\ call.op = "ChildrenBadNode"
    /\ heap[call.node].kind = "Field"
    /\ ~heap[call.node].BadNode
    /\ heap[call.node].Index # Nil
    /\ IsBadNode(heap, heap[call.node].Index) = T
    /\ call.result = F

(***************************************************************************)
(* The claims about the flags, under Spec.                                 *)
(***************************************************************************)
\* a was returned by a valid-path constructor that takes child nodes
\* (NewIdentifierName takes only the text it tests)
BuiltValidFromChildren(o, a) ==
    o[a] \notin BadConstructors \cup {"NewIdentifierName"}

\* C13: the IsBadNode() flag of a node produced by a valid-path constructor
\* never follows the flags of the children passed in: it is not true,
\* whatever the children are; NewIdentifier with a non-nil name yields
\* IsBadNode() = false even if the name is bad.
C13_FlagIsLocal ==
    (call.op = "IsBadNode" /\ call.sets = 0
     /\ BuiltValidFromChildren(origin, call.node)) =>
        call.result # T

\* IsBadNode() has been called on the Identifier that NewIdentifier built
\* from a bad, non-nil name: it is true
C13_Witness ==
    /\ call.op = "IsBadNode"
    /\ origin[call.node] = "NewIdentifier"
    /\ heap[call.node].Name # Nil
    /\ IsBadNode(heap, heap[call.node].Name) = T
    /\ call.result = T

\* C14: on every tree and for every node variant, CppType included, a call
\* of IsBadNode() or ChildrenBadNode() returns a boolean, and IsBadNode()
\* returns the node's stored flag.
C14_FlagCallsReturn ==
    (call.op \in {"IsBadNode", "ChildrenBadNode"}) =>
        /\ call.result \in {T, F}
        /\ call.op = "IsBadNode" => call.result = Bool(heap[call.node].BadNode)

\* IsBadNode() has been called on the node NewCppType returned: the call
\* does not return
C14_Witness ==
    /\ call.op = "IsBadNode"
    /\ origin[call.node] = "NewCppType"
    /\ heap[call.node].BadNode = FALSE
    /\ call.result = Diverge

(***************************************************************************)
(* The claim about concurrent readers, under SpecReaders.                  *)
(***************************************************************************)
\* the result of the call when it runs alone
AloneResult(h, op, a) ==
    IF op = "Children" THEN Children(h, a) ELSE ChildrenBadNode(h, a)

\* the step is a step of the reader r
Moved(r) ==
    readers'[r].pc # readers[r].pc \/ readers'[r].stack # readers[r].stack

\* C15: under any interleaving of Children() and ChildrenBadNode() calls of
\* several readers on one built Document, no step of a reader writes a
\* field of a node, and every call returns the result it returns when it
\* runs alone.
C15_ReadsArePure ==
    [][\A r \in Readers :
           Moved(r) =>
               /\ heap' = heap
               /\ readers'[r].pc = "done" =>
                      readers'[r].result =
                          AloneResult(heap, readers'[r].op, readers'[r].node)]_vars

\* a reader has finished ChildrenBadNode() on the Document with true while
\* another reader is in the middle of the same call
C15_Witness ==
    /\ docIn.doc # Nil
    /\ readers["r1"].pc = "done"
    /\ readers["r1"].op = "ChildrenBadNode"
    /\ readers["r1"].node = docIn.doc
    /\ readers["r1"].result = T
    /\ readers["r2"].pc = "run"
    /\ readers["r2"].node = docIn.doc
    /\ Len(readers["r2"].stack) >= 2

(***************************************************************************)
(* The claim about the order of Position, under SpecPos.                   *)
(***************************************************************************)
\* p with the offset o
AtOffset(p, o) == [p EXCEPT !.Offset = o]

\* the three comparisons of p and q give the results l, e and g
ComparesAs(p, q, l, e, g) ==
    Less(p, q) = l /\ Equal(p, q) = e /\ Greater(p, q) = g

\* C16: Less, Equal and Greater form a strict total order on (Line, Col)
\* that ignores Offset: exactly one of the three holds for every pair, Less
\* is the converse of Greater, Less is transitive, and changing only the
\* Offset of either position changes no result.
C16_StrictTotalOrder ==
    cmp.op = "compare" =>
        /\ Cardinality({k \in {"less", "equal", "greater"} : cmp[k]}) = 1
        /\ cmp.less <=> cmp.greaterQP
        /\ (cmp.less /\ cmp.lessQR) => cmp.lessPR
        /\ cmp.equal <=> (cmp.p.Line = cmp.q.Line /\ cmp.p.Col = cmp.q.Col)
        /\ \A o \in 0..MaxOffset :
               /\ ComparesAs(AtOffset(cmp.p, o), cmp.q, cmp.less, cmp.equal, cmp.greater)
               /\ ComparesAs(cmp.p, AtOffset(cmp.q, o), cmp.less, cmp.equal, cmp.greater)

\* two positions of the same line and column with different offsets have
\* been compared and are equal, and a chain p < q < r has been compared
C16_Witness ==
    /\ cmp.op = "compare"
    /\ cmp.p.Line = cmp.q.Line
    /\ cmp.p.Col = cmp.q.Col
    /\ cmp.p.Offset # cmp.q.Offset
    /\ cmp.equal
    /\ ~cmp.less
    /\ ~cmp.greater
    /\ cmp.lessQR

(***************************************************************************)
(* The claim about the ends of a span, under SpecLoc.                      *)
(***************************************************************************)
\* C17: for every start position the parser can report (line >= 1, column
\* >= 1 or the column 0 after a newline, offset >= 0) and every text, the
\* Location NewLocation returns has StartPos <= EndPos in the (line, column)
\* order, and its end line is not smaller than its start line.
C17_StartNotAfterEnd ==
    lop = "NewLocation" =>
        /\ ~Before(loc.EndPos, loc.StartPos)
        /\ loc.EndPos.Line >= loc.StartPos.Line

\* the empty text has been located at column 0: the span ends on the line
\* before its start
C17_Witness ==
    /\ lop = "NewLocation"
    /\ start.col = 0
    /\ text = <<>>
    /\ loc.EndPos.Line = loc.StartPos.Line - 1
    /\ Before(loc.EndPos, loc.StartPos)

(***************************************************************************)
(* The claim about the buckets as views of Nodes, under SpecDoc.           *)
(***************************************************************************)
\* the typed buckets of d one after the other
AllBuckets(d) ==
    d.Includes \o d.CPPIncludes \o d.Namespaces \o d.BadHeaders \o d.Consts
    \o d.Typedefs \o d.Enums \o d.Services \o d.Structs \o d.Unions
    \o d.Exceptions \o d.BadDefinitions

\* the places of the instance x in seq
PlacesIn(seq, x) == {i \in DOMAIN seq : seq[i] = x}

\* C18: in every Document NewDocument returns, each element of each typed
\* bucket is the same node instance as some element of Nodes, no instance
\* is in two buckets or twice in one bucket, and the elements of a bucket
\* are in the same relative order as in Nodes.
C18_BucketsAreViews ==
    docIn.doc # Nil =>
        LET d == heap[docIn.doc]
            all == AllBuckets(d)
        IN  /\ \A i \in DOMAIN all : PlacesIn(d.Nodes, all[i]) # {}
            /\ \A i \in DOMAIN all : PlacesIn(all, all[i]) = {i}
            /\ \A b \in Buckets : \A i, j \in DOMAIN d[b] :
                   i < j => \E k, l \in DOMAIN d.Nodes :
                                k < l /\ d.Nodes[k] = d[b][i] /\ d.Nodes[l] = d[b][j]

\* a Document has been built whose Consts bucket holds two nodes, next to
\* an Include and a trailing comment
C18_Witness ==
    /\ docIn.doc # Nil
    /\ Len(heap[docIn.doc].Consts) = 2
    /\ Len(heap[docIn.doc].Includes) = 1
    /\ Len(heap[docIn.doc].Nodes) >= 4

(***************************************************************************)
(* The claims about container types, under Spec.  The one map type built   *)
(* is map<string, list<i32>>; the lists and sets built are list<i32> and   *)
(* set<string>.                                                            *)
(***************************************************************************)
\* the FieldType nodes with a type name
NamedTypes(h) ==
    {a \in DOMAIN h : h[a].kind = "FieldType" /\ h[a].TypeName # Nil}

\* the type name of the FieldType at a
NameOf(h, a) == h[h[a].TypeName].Name

\* x comes before y in seq
Precedes(seq, x, y) == \E i, j \in DOMAIN seq : i < j /\ seq[i] = x /\ seq[j] = y

\* the FieldType at a is map<string, list<i32>> according to f, which gives
\* the name of a FieldType node
IsMapStringListI32(h, a, f(_)) ==
    /\ h[a].KeyType # Nil
    /\ f(h[a].KeyType) = "string"
    /\ h[a].ValueType # Nil
    /\ f(h[a].ValueType) = "list"
    /\ h[h[a].ValueType].KeyType # Nil
    /\ f(h[h[a].ValueType].KeyType) = "i32"

\* list and set types have no value type, and Children() of a FieldType
\* yields TypeName before KeyType before ValueType
ContainerShape(h) ==
    /\ \A a \in NamedTypes(h) :
           NameOf(h, a) \in {ListName, SetName} =>
               h[a].KeyType # Nil /\ h[a].ValueType = Nil
    /\ (call.op = "Children" /\ h[call.node].kind = "FieldType") =>
           LET n == h[call.node]
           IN  /\ n.TypeName \in Range(call.result)
               /\ n.KeyType # Nil => Precedes(call.result, n.TypeName, n.KeyType)
               /\ n.ValueType # Nil =>
                      Precedes(call.result, n.KeyType, n.ValueType)

\* the Type() tag of the FieldType at a
TagOf(a) == Type(heap, a)

\* the text of the type name of the FieldType at a
SpelledName(a) ==
    LET name == NameOf(heap, a)
    IN  CASE name = MapName -> "map"
          [] name = SetName -> "set"
          [] name = ListName -> "list"
          [] name = StringName -> "string"
          [] name = I32Name -> "i32"
          [] OTHER -> "other"

\* C19: for the FieldType NewFieldType builds for map<string, list<i32>>,
\* the Type() tag of KeyType is "string", that of ValueType is "list" and
\* that of ValueType.KeyType is "i32"; list and set types have no
\* ValueType, and Children() yields TypeName, then KeyType, then ValueType.
C19_TagsAreTypeNames ==
    /\ \A a \in NamedTypes(heap) :
           NameOf(heap, a) = MapName => IsMapStringListI32(heap, a, TagOf)
    /\ ContainerShape(heap)

\* C19 as the code has it: Type() is "FieldType" on every FieldType, and
\* the type names are in TypeName.Name: "string" for KeyType, "list" for
\* ValueType and "i32" for ValueType.KeyType of map<string, list<i32>>;
\* list and set types have no ValueType, and Children() yields TypeName,
\* then KeyType, then ValueType.
C19_NamesAreInTypeName ==
    /\ \A a \in NamedTypes(heap) :
           NameOf(heap, a) = MapName => IsMapStringListI32(heap, a, SpelledName)
    /\ (call.op = "Type" /\ heap[call.node].kind = "FieldType") =>
           call.result = "FieldType"
    /\ ContainerShape(heap)

\* Children() has been called on the FieldType of map<string, list<i32>>
C19_Witness ==
    /\ call.op = "Children"
    /\ heap[call.node].kind = "FieldType"
    /\ NameOf(heap, call.node) = MapName
    /\ IsMapStringListI32(heap, call.node, SpelledName)
    /\ TagOf(heap[call.node].KeyType) = "FieldType"
    /\ Len(call.result) = 3

\* C20: for a map FieldType built by NewFieldType with a key type, a value
\* type and a CommaKeyword, the CommaKeyword is among the nodes Children()
\* returns, after the KeyType child and before the ValueType child.
C20_CommaBetweenKeyAndValue ==
    (call.op = "Children" /\ heap[call.node].kind = "FieldType"
     /\ heap[call.node].KeyType # Nil /\ heap[call.node].ValueType # Nil
     /\ heap[call.node].CommaKeyword # Nil) =>
        /\ Precedes(call.result, heap[call.node].KeyType, heap[call.node].CommaKeyword)
        /\ Precedes(call.result, heap[call.node].CommaKeyword, heap[call.node].ValueType)

\* Children() has been called on a map FieldType with a CommaKeyword: the
\* CommaKeyword is not among the nodes returned
C20_Witness ==
    /\ call.op = "Children"
    /\ heap[call.node].kind = "FieldType"
    /\ heap[call.node].KeyType # Nil
    /\ heap[call.node].ValueType # Nil
    /\ heap[call.node].CommaKeyword # Nil
    /\ origin[heap[call.node].CommaKeyword] = "CommaKeyword"
    /\ heap[call.node].CommaKeyword \notin Range(call.result)

\* C21: in a tree made by the constructors and the setters, every child in
\* Children() of a node other than the Document lies within the node's
\* Location: it does not start before the node, does not end after it, and
\* starts before the node's end.
C21_ChildWithinParent ==
    (call.op = "Children" /\ heap[call.node].kind # "Document") =>
        \A i \in DOMAIN call.result :
            call.result[i] # Nil =>
                /\ ~Before(Pos(heap, call.result[i]), Pos(heap, call.node))
                /\ ~Before(End(heap, call.node), End(heap, call.result[i]))
                /\ Before(Pos(heap, call.result[i]), End(heap, call.node))

\* Children() has been called on a Field built by NewField with the result of
\* NewBadEqualKeyword(): the keyword is a child and starts at line 0, before
\* the field
C21_Witness ==
    /\ call.op = "Children"
    /\ origin[call.node] = "NewField"
    /\ heap[call.node].EqualKeyword # Nil
    /\ origin[heap[call.node].EqualKeyword] = "NewBadEqualKeyword"
    /\ heap[call.node].EqualKeyword \in Range(call.result)
    /\ Before(Pos(heap, heap[call.node].EqualKeyword), Pos(heap, call.node))

SplitsAs(p, dir, base, ext) ==
    /\ p = dir \o base \o ext
    /\ dir # <<>> => dir[Len(dir)] = 47
    /\ \A i \in DOMAIN base : base[i] # 47
    /\ ext # <<>> /\ ext[1] = 46
    /\ \A i \in 2..Len(ext) : ext[i] \notin {46, 47}

\* the parts of p between two cuts
Parts(p) ==
    {<<SubSeq(p, 1, i), SubSeq(p, i + 1, j), SubSeq(p, j + 1, Len(p))>> :
        <<i, j>> \in {c \in (0..Len(p)) \X (0..Len(p)) : c[1] <= c[2]}}

\* the path text of the include at a
PathText(h, a) == h[h[h[a].Path].Value].Text

\* C23: for a valid Include whose path text is dir/base.ext, Name() returns
\* exactly base: the last path element without its final extension, every
\* other character kept.
C23_NameIsBase ==
    (/\ call.op = "Name"
     /\ IsBadNode(heap, call.node) = F
     /\ ChildrenBadNode(heap, call.node) = F) =>
        \A s \in Parts(PathText(heap, call.node)) :
            SplitsAs(PathText(heap, call.node), s[1], s[2], s[3]) =>
                /\ call.result.out = "returned"
                /\ call.result.name = s[2]

\* Name() has been called on the include of "a/test.thrift": the base is
\* "test" and the call has returned "tes"
C23_Witness ==
    /\ call.op = "Name"
    /\ IsBadNode(heap, call.node) = F
    /\ ChildrenBadNode(heap, call.node) = F
    /\ PathText(heap, call.node) = ATestThrift
    /\ SplitsAs(ATestThrift, <<97, 47>>, <<116, 101, 115, 116>>,
                <<46, 116, 104, 114, 105, 102, 116>>)
    /\ call.result.out = "returned"
    /\ call.result.name = <<116, 101, 115>>

\* the composite variants: keywords, delimiters, a name, nested elements,
\* comments and an annotation block
CompositeKinds ==
    {"Struct", "Union", "Exception", "Enum", "Service", "Function", "Field",
     "Typedef", "Const", "Namespace", "Include", "CPPInclude", "EnumValue",
     "Throws", "Annotations", "Annotation"}

\* C24: for every node of a composite variant, Children() lists each owned
\* node at most once, and its length is the number of non-nil slots plus the
\* lengths of the lists of nested elements, Comments and EndLineComments.
C24_ChildrenListOnce ==
    (call.op = "Children" /\ heap[call.node].kind \in CompositeKinds) =>
        /\ \A i, j \in DOMAIN call.result :
                (i # j /\ call.result[i] # Nil) => call.result[i] # call.result[j]
        /\ Len(call.result) = Cardinality(SlotSet(heap, call.node))

\* Children() has been called on a union after SetComments: the leading
\* comment is listed twice
C24_Witness ==
    /\ call.op = "Children"
    /\ origin[call.node] = "NewUnion"
    /\ heap[call.node].Comments # <<>>
    /\ \E i, j \in DOMAIN call.result :
            /\ i < j
            /\ call.result[i] = heap[call.node].Comments[1]
            /\ call.result[j] = heap[call.node].Comments[1]

\* C25: a direct call of ChildrenBadNode() on the node a bad-path
\* constructor returned completes without a fault and returns false.
C25_BadNodeHasNoBadChildren ==
    (/\ call.op = "ChildrenBadNode"
     /\ call.sets = 0
     /\ origin[call.node] \in BadConstructors) => call.result = F

\* ChildrenBadNode() has been called on the node NewBadFunction returned:
\* the first entry of its Children() is the nil LParKeyword and the call
\* has panicked
C25_Witness ==
    /\ call.op = "ChildrenBadNode"
    /\ call.sets = 0
    /\ origin[call.node] = "NewBadFunction"
    /\ Children(heap, call.node)[1] = Nil
    /\ call.result = Panic

====
